---------------------------- MODULE Spec2Model ----------------------------
(***************************************************************************)
(* Model of the path resolver, the content renderer and the request        *)
(* handlers of phishingclub/templates (internal/handler).                  *)
(*                                                                         *)
(* Strings are Go strings: finite sequences of bytes (0..255).  The        *)
(* standard-library calls of the handlers (url.QueryUnescape,              *)
(* html.UnescapeString, utf8 decoding, filepath.Clean/Join/Dir/Abs) are    *)
(* modelled by what they do on bytes, at the call sites that use them.     *)
(***************************************************************************)
EXTENDS Integers, Sequences, FiniteSets, TLC

(***************************************************************************)
(* Byte strings                                                            *)
(***************************************************************************)

\* The printable ASCII characters, code points 32..126 in order (the grave
\* accent, 96, by name).
Printable ==
  << " ", "!", "\"", "#", "$", "%", "&", "'", "(", ")", "*", "+", ",", "-", ".", "/",
     "0", "1", "2", "3", "4", "5", "6", "7", "8", "9", ":", ";", "<", "=", ">", "?",
     "@", "A", "B", "C", "D", "E", "F", "G", "H", "I", "J", "K", "L", "M", "N", "O",
     "P", "Q", "R", "S", "T", "U", "V", "W", "X", "Y", "Z", "[", "\\", "]", "^", "_",
     "GRAVE", "a", "b", "c", "d", "e", "f", "g", "h", "i", "j", "k", "l", "m", "n", "o",
     "p", "q", "r", "s", "t", "u", "v", "w", "x", "y", "z", "{", "|", "}", "~" >>

\* Code[c]: the byte of the one-character string c.
Code ==
  [c \in {Printable[i] : i \in 1..Len(Printable)} |->
      31 + (CHOOSE i \in 1..Len(Printable) : Printable[i] = c)]

\* B(<<"a", "/", "b">>): the Go string "a/b" as bytes.
B(t) == [i \in 1..Len(t) |-> Code[t[i]]]

\* ch("/"): one byte.
ch(c) == Code[c]

\* A local variable of the code: With([x \in { e } |-> body]) is body with x
\* standing for the value of e, computed once where the code assigns it.
With(f) == f[CHOOSE x \in DOMAIN f : TRUE]

\* s[i:] of Go, with 1-based i.
From(s, i) == SubSeq(s, i, Len(s))

\* strings.HasPrefix(s[i-1:], p)
HasPrefixAt(s, i, p) ==
  /\ i + Len(p) - 1 <= Len(s)
  /\ \A k \in 1..Len(p) : s[i + k - 1] = p[k]

\* strings.HasPrefix
HasPrefix(s, p) == HasPrefixAt(s, 1, p)

\* strings.HasSuffix
HasSuffix(s, p) == Len(p) <= Len(s) /\ HasPrefixAt(s, Len(s) - Len(p) + 1, p)

\* strings.Contains
Contains(s, p) == \E i \in 1..(Len(s) - Len(p) + 1) : HasPrefixAt(s, i, p)

\* strings.TrimPrefix
TrimPrefix(s, p) == IF HasPrefix(s, p) THEN From(s, Len(p) + 1) ELSE s

\* strings.TrimSuffix
TrimSuffix(s, p) == IF HasSuffix(s, p) THEN SubSeq(s, 1, Len(s) - Len(p)) ELSE s

\* strings.TrimLeft(s, string(c)) for a one-byte cutset
RECURSIVE TrimLeft(_, _)
TrimLeft(s, c) ==
  IF Len(s) > 0 /\ s[1] = c THEN TrimLeft(Tail(s), c) ELSE s

\* strings.TrimRight(s, string(c)) for a one-byte cutset
RECURSIVE TrimRight(_, _)
TrimRight(s, c) ==
  IF Len(s) > 0 /\ s[Len(s)] = c THEN TrimRight(SubSeq(s, 1, Len(s) - 1), c) ELSE s

\* strings.ReplaceAll(s, string(old), string(new)) for one-byte old and new
ReplaceByte(s, old, new) == [i \in 1..Len(s) |-> IF s[i] = old THEN new ELSE s[i]]

\* The least element of a non-empty set of numbers
Min(S) == CHOOSE k \in S : \A j \in S : k <= j

\* The greatest element of a non-empty set of numbers
Max(S) == CHOOSE k \in S : \A j \in S : j <= k

\* strings.Index(s[i-1:], p) as an index into s; 0 when p does not occur
Index(s, i, p) ==
  With([at \in { { k \in i..(Len(s) - Len(p) + 1) : HasPrefixAt(s, k, p) } } |->
      IF at = {} THEN 0 ELSE Min(at)])

\* The first index at or after i of a byte of the set cs; Len(s) + 1 when
\* there is none (strings.IndexAny)
IndexAny(s, i, cs) ==
  With([at \in { { k \in i..Len(s) : s[k] \in cs } } |->
      IF at = {} THEN Len(s) + 1 ELSE Min(at)])

\* strings.Replace(s, old, new, -1) for a non-empty old, from index i on
RECURSIVE ReplaceFrom(_, _, _, _)
ReplaceFrom(s, i, old, new) ==
  With([k \in { Index(s, i, old) } |->
      IF k = 0 THEN From(s, i)
      ELSE SubSeq(s, i, k - 1) \o new \o ReplaceFrom(s, k + Len(old), old, new)])

Replace(s, old, new) == ReplaceFrom(s, 1, old, new)

\* strings.ToLower on the ASCII letters (the patterns it is compared with are ASCII)
ToLower(s) == [i \in 1..Len(s) |-> IF s[i] \in 65..90 THEN s[i] + 32 ELSE s[i]]

\* strings.LastIndexByte, 1-based, 0 when absent
LastIndex(s, c) ==
  IF \E i \in 1..Len(s) : s[i] = c
  THEN CHOOSE i \in 1..Len(s) : s[i] = c /\ \A j \in (i + 1)..Len(s) : s[j] # c
  ELSE 0

\* The concatenation of a sequence of strings
RECURSIVE Concat(_)
Concat(ss) ==
  IF Len(ss) = 0 THEN << >>
  ELSE IF Len(ss) = 1 THEN ss[1]
  ELSE With([half \in { Len(ss) \div 2 } |->
           Concat(SubSeq(ss, 1, half)) \o Concat(SubSeq(ss, half + 1, Len(ss)))])

(***************************************************************************)
(* unicode/utf8                                                            *)
(***************************************************************************)

\* utf8.RuneError, U+FFFD
RuneError == 65533

IsCont(b) == b \in 128..191

\* utf8.DecodeRuneInString(s[i-1:]): the rune at i and its width; an invalid
\* or truncated encoding decodes to RuneError with width 1.
DecodeRune(s, i) ==
  With([b0 \in { s[i] },
        n \in { Len(s) - i + 1 },
        bad \in { [r |-> RuneError, w |-> 1] } |->
      IF b0 < 128 THEN [r |-> b0, w |-> 1]
      ELSE IF b0 \in 194..223 THEN
        IF n >= 2 /\ IsCont(s[i + 1])
        THEN [r |-> (b0 - 192) * 64 + (s[i + 1] - 128), w |-> 2] ELSE bad
      ELSE IF b0 \in 224..239 THEN
        With([lo \in { IF b0 = 224 THEN 160 ELSE 128 },
              hi \in { IF b0 = 237 THEN 159 ELSE 191 } |->
            IF n >= 3 /\ s[i + 1] \in lo..hi /\ IsCont(s[i + 2])
            THEN [r |-> (b0 - 224) * 4096 + (s[i + 1] - 128) * 64 + (s[i + 2] - 128),
                  w |-> 3]
            ELSE bad])
      ELSE IF b0 \in 240..244 THEN
        With([lo \in { IF b0 = 240 THEN 144 ELSE 128 },
              hi \in { IF b0 = 244 THEN 143 ELSE 191 } |->
            IF n >= 4 /\ s[i + 1] \in lo..hi /\ IsCont(s[i + 2]) /\ IsCont(s[i + 3])
            THEN [r |-> (b0 - 240) * 262144 + (s[i + 1] - 128) * 4096
                          + (s[i + 2] - 128) * 64 + (s[i + 3] - 128),
                  w |-> 4]
            ELSE bad])
      ELSE bad])

\* utf8.EncodeRune / strings.Builder.WriteRune
EncodeRune(r0) ==
  With([r \in { IF r0 < 0 \/ r0 > 1114111 \/ r0 \in 55296..57343 THEN RuneError ELSE r0 } |->
      IF r < 128 THEN << r >>
      ELSE IF r < 2048 THEN << 192 + (r \div 64), 128 + (r % 64) >>
      ELSE IF r < 65536
        THEN << 224 + (r \div 4096), 128 + ((r \div 64) % 64), 128 + (r % 64) >>
      ELSE << 240 + (r \div 262144), 128 + ((r \div 4096) % 64),
              128 + ((r \div 64) % 64), 128 + (r % 64) >>])

\* unicode.IsControl: the category Cc
IsControl(r) == r \in 0..31 \/ r \in 127..159

(***************************************************************************)
(* net/url QueryUnescape                                                   *)
(***************************************************************************)

ishex(c) == c \in 48..57 \/ c \in 97..102 \/ c \in 65..70

unhex(c) ==
  IF c \in 48..57 THEN c - 48
  ELSE IF c \in 97..102 THEN c - 97 + 10
  ELSE IF c \in 65..70 THEN c - 65 + 10
  ELSE 0

\* First pass of url.unescape: a '%' not followed by two hex digits is an error.
RECURSIVE escapeError(_, _)
escapeError(s, i) ==
  IF i > Len(s) THEN FALSE
  ELSE IF s[i] = ch("%") THEN
    IF i + 2 > Len(s) \/ ~ishex(s[i + 1]) \/ ~ishex(s[i + 2]) THEN TRUE
    ELSE escapeError(s, i + 3)
  ELSE escapeError(s, i + 1)

\* Second pass of url.unescape in query mode: %XX is the byte XX, '+' a space.
RECURSIVE unescapeFrom(_, _)
unescapeFrom(s, i) ==
  IF i > Len(s) THEN << >>
  ELSE IF s[i] = ch("%")
    THEN << 16 * unhex(s[i + 1]) + unhex(s[i + 2]) >> \o unescapeFrom(s, i + 3)
  ELSE IF s[i] = ch("+") THEN << ch(" ") >> \o unescapeFrom(s, i + 1)
  ELSE << s[i] >> \o unescapeFrom(s, i + 1)

\* url.QueryUnescape: (decoded, nil) or ("", error)
QueryUnescape(s) ==
  IF escapeError(s, 1) THEN [err |-> TRUE, val |-> << >>]
  ELSE [err |-> FALSE, val |-> unescapeFrom(s, 1)]

(***************************************************************************)
(* html.UnescapeString                                                     *)
(***************************************************************************)

\* The named character references the model knows, of the table of package
\* html: name (with its ';' when it has one) and code point.  The names
\* without ';' are the legacy forms the table also holds.
entity ==
  { << B(<<"a","m","p",";">>), 38 >>, << B(<<"a","m","p">>), 38 >>,
    << B(<<"l","t",";">>), 60 >>,     << B(<<"l","t">>), 60 >>,
    << B(<<"g","t",";">>), 62 >>,     << B(<<"g","t">>), 62 >>,
    << B(<<"q","u","o","t",";">>), 34 >>, << B(<<"q","u","o","t">>), 34 >>,
    << B(<<"p","e","r","i","o","d",";">>), 46 >>,
    << B(<<"s","o","l",";">>), 47 >>,
    << B(<<"b","s","o","l",";">>), 92 >>,
    << B(<<"p","e","r","c","n","t",";">>), 37 >>,
    << B(<<"n","u","m",";">>), 35 >>,
    << B(<<"c","o","l","o","n",";">>), 58 >>,
    << B(<<"T","a","b",";">>), 9 >>,
    << B(<<"N","e","w","L","i","n","e",";">>), 10 >> }

\* entity[name] != 0
isEntity(name) == \E e \in entity : e[1] = name

entityRune(name) == (CHOOSE e \in entity : e[1] = name)[2]

\* The code points numeric references 0x80..0x9F stand for (Windows-1252).
replacementTable ==
  << 8364, 129, 8218, 402, 8222, 8230, 8224, 8225, 710, 8240, 352, 8249, 338, 141,
     381, 143, 144, 8216, 8217, 8220, 8221, 8226, 8211, 8212, 732, 8482, 353, 8250,
     339, 157, 382, 376 >>

isAlnum(c) == c \in 97..122 \/ c \in 65..90 \/ c \in 48..57

isDigitIn(c, hex) == IF hex THEN ishex(c) ELSE c \in 48..57

\* The digits s[i..] of a numeric reference, accumulated as Go accumulates a
\* rune (int32, wrapping): the value is kept as two 16-bit halves hi, lo.
\* [hi, lo, i |-> index after the digits]
RECURSIVE scanDigits(_, _, _, _, _)
scanDigits(s, i, hex, hi, lo) ==
  IF i <= Len(s) /\ isDigitIn(s[i], hex)
  THEN With([m \in { IF hex THEN 16 ELSE 10 } |->
       With([l \in { m * lo + unhex(s[i]) } |->
           scanDigits(s, i + 1, hex, (m * hi + (l \div 65536)) % 65536, l % 65536)])])
  ELSE [hi |-> hi, lo |-> lo, i |-> i]

\* The int32 value of the halves; -1 stands for every negative value (which
\* no check of unescapeEntity tells apart and EncodeRune turns into U+FFFD).
int32(hi, lo) == IF hi >= 32768 THEN -1 ELSE hi * 65536 + lo

\* The index after the run of letters and digits that starts at s[i]
RECURSIVE scanName(_, _)
scanName(s, i) == IF i <= Len(s) /\ isAlnum(s[i]) THEN scanName(s, i + 1) ELSE i

\* The longest j in 2..maxLen with name[:j] in the table, 0 when there is none
RECURSIVE prefixEntity(_, _)
prefixEntity(name, j) ==
  IF j <= 1 THEN 0
  ELSE IF isEntity(SubSeq(name, 1, j)) THEN j
  ELSE prefixEntity(name, j - 1)

\* html.unescapeEntity at s[src] = '&': the bytes written and the number of
\* bytes of s read.
unescapeEntity(s, src) ==
  With([L \in { Len(s) - src + 1 },
        literal \in { [out |-> << ch("&") >>, n |-> 1] } |->
      IF L <= 1 THEN literal
      ELSE IF s[src + 1] = ch("#") THEN
        IF L <= 3 THEN literal
        ELSE
          With([hex \in { s[src + 2] \in {ch("x"), ch("X")} } |->
          With([first \in { IF hex THEN src + 3 ELSE src + 2 } |->
          With([d \in { scanDigits(s, first, hex, 0, 0) } |->
          With([v \in { int32(d.hi, d.lo) },
                stop \in { IF d.i <= Len(s) /\ s[d.i] = ch(";") THEN d.i + 1 ELSE d.i } |->
          With([i \in { stop - src },
                x \in { IF v \in 128..159 THEN replacementTable[v - 127]
                       ELSE IF v = 0 \/ v \in 55296..57343 \/ v > 1114111
                         THEN RuneError
                       ELSE v } |->
              IF i <= 3 THEN literal
              ELSE [out |-> EncodeRune(x), n |-> i]])])])])])
      ELSE
        With([e \in { scanName(s, src + 1) } |->
        With([stop \in { IF e <= Len(s) /\ s[e] = ch(";") THEN e + 1 ELSE e } |->
        With([name \in { SubSeq(s, src + 1, stop - 1) },
              copy \in { [out |-> SubSeq(s, src, stop - 1), n |-> stop - src] } |->
            IF Len(name) = 0 THEN copy
            ELSE IF isEntity(name) THEN [out |-> EncodeRune(entityRune(name)), n |-> stop - src]
            ELSE
              With([maxLen \in { IF Len(name) - 1 > 6 THEN 6 ELSE Len(name) - 1 } |->
              With([j \in { prefixEntity(name, maxLen) } |->
                  IF j > 0
                  THEN [out |-> EncodeRune(entityRune(SubSeq(name, 1, j))), n |-> j + 1]
                  ELSE copy])])])])])])

RECURSIVE unescapeStringFrom(_, _)
unescapeStringFrom(s, src) ==
  IF src > Len(s) THEN << >>
  ELSE IF s[src] # ch("&") THEN << s[src] >> \o unescapeStringFrom(s, src + 1)
  ELSE With([e \in { unescapeEntity(s, src) } |->
           e.out \o unescapeStringFrom(s, src + e.n)])

\* html.UnescapeString
UnescapeString(s) == unescapeStringFrom(s, 1)

(***************************************************************************)
(* path/filepath (Unix: the separator is '/')                              *)
(***************************************************************************)

Separator == ch("/")

\* filepath.IsAbs
IsAbs(path) == HasPrefix(path, << Separator >>)

\* filepath.ToSlash: every Separator becomes '/'
ToSlash(path) == ReplaceByte(path, Separator, ch("/"))

\* The loop of filepath.Clean: r reads path, out is the buffer written so far,
\* dotdot the index in out before which a ".." may not back up.
RECURSIVE cleanLoop(_, _, _, _, _)
cleanLoop(path, rooted, r, out, dotdot) ==
  LET n == Len(path)
      isSep(i) == path[i] = Separator
  IN  IF r > n THEN out
      ELSE IF isSep(r) THEN cleanLoop(path, rooted, r + 1, out, dotdot)
      ELSE IF path[r] = ch(".") /\ (r = n \/ isSep(r + 1))
        THEN cleanLoop(path, rooted, r + 1, out, dotdot)
      ELSE IF path[r] = ch(".") /\ path[r + 1] = ch(".") /\ (r + 1 = n \/ isSep(r + 2))
        THEN
          IF Len(out) > dotdot THEN
            \* back up over the last element written
            With([cut \in { CHOOSE w \in dotdot..(Len(out) - 1) :
                         /\ (w = dotdot \/ out[w + 1] = Separator)
                         /\ \A v \in (w + 1)..(Len(out) - 1) :
                               v = dotdot \/ out[v + 1] # Separator } |->
                cleanLoop(path, rooted, r + 2, SubSeq(out, 1, cut), dotdot)])
          ELSE IF ~rooted THEN
            With([o2 \in { (IF Len(out) > 0 THEN out \o << Separator >> ELSE out)
                        \o << ch("."), ch(".") >> } |->
                cleanLoop(path, rooted, r + 2, o2, Len(o2))])
          ELSE cleanLoop(path, rooted, r + 2, out, dotdot)
      ELSE
        \* a real path element: add a slash if needed, then copy it
        With([o1 \in { IF (rooted /\ Len(out) # 1) \/ (~rooted /\ Len(out) # 0)
                   THEN out \o << Separator >> ELSE out },
              e \in { IF \E i \in r..n : isSep(i)
                   THEN (CHOOSE i \in r..n : isSep(i) /\ \A j \in r..(i - 1) : ~isSep(j))
                   ELSE n + 1 } |->
            cleanLoop(path, rooted, e, o1 \o SubSeq(path, r, e - 1), dotdot)])

\* Clean as a bug would have it: the separators are dropped, and what stood
\* on either side of them is joined.
Clean_ElementsJoined(path) ==
  IF Len(path) = 0 THEN << ch(".") >>
  ELSE SelectSeq(path, LAMBDA b : b # Separator)

\* Clean as a bug would have it: the path is used as it is, its "." elements
\* and duplicate separators kept.
Clean_Uncleaned(path) == IF Len(path) = 0 THEN << ch(".") >> ELSE path

\* filepath.Clean
Clean(path) ==
  IF Len(path) = 0 THEN << ch(".") >>
  ELSE
    With([rooted \in { path[1] = Separator } |->
    With([out \in { cleanLoop(path, rooted,
                            IF rooted THEN 2 ELSE 1,
                            IF rooted THEN << Separator >> ELSE << >>,
                            IF rooted THEN 1 ELSE 0) } |->
        IF Len(out) = 0 THEN << ch(".") >> ELSE out])])

\* filepath.Join of two elements: the non-empty ones, joined by the separator
\* and cleaned; "" when both are empty.
Join(a, b) ==
  IF Len(a) = 0 /\ Len(b) = 0 THEN << >>
  ELSE IF Len(a) = 0 THEN Clean(b)
  ELSE IF Len(b) = 0 THEN Clean(a)
  ELSE Clean(a \o << Separator >> \o b)

\* filepath.Join of three elements
Join3(a, b, c) ==
  With([parts \in { SelectSeq(<< a, b, c >>, LAMBDA e : Len(e) > 0) } |->
      IF Len(parts) = 0 THEN << >>
      ELSE Clean(Concat([i \in 1..Len(parts) |->
                   IF i = 1 THEN parts[i] ELSE << Separator >> \o parts[i]]))])

\* filepath.Dir: everything up to the last separator, cleaned
Dir(path) == Clean(SubSeq(path, 1, LastIndex(path, Separator)))

\* The working directory of the process (os.Getwd), which filepath.Abs
\* prepends to a relative path.
Getwd == B(<< "/", "w" >>)

\* filepath.Abs
Abs(path) == IF IsAbs(path) THEN Clean(path) ELSE Join(Getwd, path)

(***************************************************************************)
(* internal/handler/handler.go: the path resolver                          *)
(***************************************************************************)

\* maxIterations of decodeMultipleLayers
maxIterations == 5

\* decodeRound as a bug would have it: URL decoding only, character
\* references left alone.
decodeRound_UrlOnly(current) ==
  With([u \in { QueryUnescape(current) } |->
      IF u.err THEN current ELSE u.val])

\* One round of the loop of decodeMultipleLayers: URL decode (kept only when
\* it does not fail), then HTML entity decode.
decodeRound(current) ==
  With([u \in { QueryUnescape(current) } |->
      UnescapeString(IF u.err THEN current ELSE u.val)])

\* The loop of decodeMultipleLayers from iteration i (0-based): the string it
\* ends with and the number of rounds it ran.
RECURSIVE decodeLoop(_, _)
decodeLoop(current, i) ==
  IF i >= maxIterations THEN [val |-> current, rounds |-> i]
  ELSE With([next \in { decodeRound(current) } |->
           IF next = current THEN [val |-> current, rounds |-> i + 1]
           ELSE decodeLoop(next, i + 1)])

\* decodeMultipleLayers: (string, error); the error is always nil.
decodeMultipleLayers(input) ==
  With([d \in { decodeLoop(input, 0) } |->
      [val |-> d.val, err |-> FALSE, rounds |-> d.rounds]])

\* isValidUTF8Start(bytes[i-1:])
isValidUTF8Start(bytes, i) ==
  With([n \in { Len(bytes) - i + 1 } |->
      IF n = 0 THEN FALSE
      ELSE With([b \in { bytes[i] } |->
               IF b < 128 THEN TRUE
               ELSE IF b < 194 \/ b > 244 THEN FALSE
               ELSE IF b < 224 THEN n >= 2 /\ IsCont(bytes[i + 1])
               ELSE IF b < 240 THEN n >= 3 /\ IsCont(bytes[i + 1]) /\ IsCont(bytes[i + 2])
               ELSE n >= 4 /\ IsCont(bytes[i + 1]) /\ IsCont(bytes[i + 2])
                           /\ IsCont(bytes[i + 3])])])

\* sanitizeUTF8: the loop from index i.  The overlong pairs C0 AE and C0 AF
\* become '.' and '/'; any other byte is copied when it is ASCII or starts a
\* valid sequence, and the index then advances by ONE byte.
RECURSIVE sanitizeFrom(_, _)
sanitizeFrom(input, i) ==
  IF i > Len(input) THEN << >>
  ELSE IF i + 1 <= Len(input) /\ input[i] = 192 /\ input[i + 1] = 174
    THEN << ch(".") >> \o sanitizeFrom(input, i + 2)
  ELSE IF i + 1 <= Len(input) /\ input[i] = 192 /\ input[i + 1] = 175
    THEN << ch("/") >> \o sanitizeFrom(input, i + 2)
  ELSE IF input[i] < 128 \/ isValidUTF8Start(input, i)
    THEN << input[i] >> \o sanitizeFrom(input, i + 1)
  ELSE sanitizeFrom(input, i + 1)

sanitizeUTF8(input) == sanitizeFrom(input, 1)

\* The rune loop of normalizeAndClean over the sanitized string
RECURSIVE normalizeFrom(_, _)
normalizeFrom(sanitized, i) ==
  IF i > Len(sanitized) THEN << >>
  ELSE
    With([d \in { DecodeRune(sanitized, i) } |->
    With([r \in { d.r },
          rest \in { normalizeFrom(sanitized, i + d.w) } |->
        IF r = 0 \/ (IsControl(r) /\ r # 9 /\ r # 10 /\ r # 13) THEN rest
        ELSE IF r = 8725 THEN << ch("/") >> \o rest      \* U+2215 division slash
        ELSE IF r = 8260 THEN << ch("/") >> \o rest      \* U+2044 fraction slash
        ELSE IF r = 65294 THEN << ch(".") >> \o rest     \* U+FF0E fullwidth full stop
        ELSE IF r = 65295 THEN << ch("/") >> \o rest     \* U+FF0F fullwidth solidus
        ELSE EncodeRune(r) \o rest])])

\* normalizeAndClean
normalizeAndClean(input) == normalizeFrom(sanitizeUTF8(input), 1)

\* The spaced or padded patterns of containsTraversalPattern
patterns ==
  << << ch("."), ch(" "), ch(".") >>,
     << ch("."), 9, ch(".") >>,
     << ch("."), ch(" "), ch("."), ch("/") >>,
     << ch("."), 9, ch("."), ch("/") >>,
     << ch(" "), ch("."), ch("."), ch("/") >>,
     << 9, ch("."), ch("."), ch("/") >> >>

\* The encoded patterns of containsTraversalPattern
encodedPatterns ==
  << B(<< "%", "2", "e", "%", "2", "e" >>),
     B(<< "&", "#", "4", "6", ";", "&", "#", "4", "6", ";" >>),
     B(<< "&", "#", "x", "2", "e", ";", "&", "#", "x", "2", "e", ";" >>) >>

\* containsTraversalPattern as a bug would have it: the direct check for ".."
\* is missing.
containsTraversalPattern_NoDirectCheck(path) ==
  \/ \E k \in 1..Len(patterns) : Contains(path, patterns[k])
  \/ \E k \in 1..Len(encodedPatterns) :
        Contains(ToLower(path), ToLower(encodedPatterns[k]))

\* containsTraversalPattern
containsTraversalPattern(path) ==
  \/ Contains(path, << ch("."), ch(".") >>)
  \/ \E k \in 1..Len(patterns) : Contains(path, patterns[k])
  \/ \E k \in 1..Len(encodedPatterns) :
        Contains(ToLower(path), ToLower(encodedPatterns[k]))

\* The error values of validatePath (nil is NoError)
NoError == "nil"
ErrAbsolute == "absolute paths not allowed"
ErrUNC == "UNC paths not allowed"
ErrEncoding == "invalid encoding in path"
ErrTraversal == "path traversal attempt detected"
ErrEscape == "path escapes base directory"

\* Failure as a bug would have it: the cleaned empty path, ".", is returned
\* with the error.
Failure_CleanedPath(e) == [path |-> Clean(<< >>), err |-> e]

\* A failed validatePath returns "" with its error.
Failure(e) == [path |-> << >>, err |-> e]

\* The final verification of validatePath: the resolved path is the base or
\* starts with base + separator.
withinBase(absFullPath, absBasePath) ==
  absFullPath = absBasePath \/ HasPrefix(absFullPath, absBasePath \o << Separator >>)

\* The string validatePath runs its first traversal check on
firstCleanPath(reqPath) ==
  TrimLeft(ReplaceByte(normalizeAndClean(decodeMultipleLayers(reqPath).val),
                       ch("\\"), ch("/")),
           ch("/"))

\* validatePath(baseDir, reqPath): (path, error)
validatePath(baseDir, reqPath) ==
  IF IsAbs(reqPath) THEN Failure(ErrAbsolute)
  ELSE IF Len(reqPath) >= 2 /\ reqPath[2] = ch(":") THEN Failure(ErrAbsolute)
  ELSE IF HasPrefix(reqPath, << ch("\\"), ch("\\") >>)
          \/ HasPrefix(reqPath, << ch("/"), ch("/") >>) THEN Failure(ErrUNC)
  ELSE IF decodeMultipleLayers(reqPath).err THEN Failure(ErrEncoding)
  ELSE
    With([cleanPath1 \in { firstCleanPath(reqPath) } |->
        IF containsTraversalPattern(cleanPath1) THEN Failure(ErrTraversal)
        ELSE
          With([cleaned \in { Clean(cleanPath1) } |->
              IF containsTraversalPattern(cleaned) THEN Failure(ErrTraversal)
              ELSE
                With([cleanPath2 \in { IF cleaned = << >> \/ cleaned = << ch(".") >>
                                   THEN << >> ELSE cleaned } |->
                With([fullPath \in { Join(baseDir, cleanPath2) },
                      absBasePath \in { Abs(baseDir) } |->
                With([absFullPath \in { Abs(fullPath) } |->
                    IF ~withinBase(absFullPath, absBasePath) THEN Failure(ErrEscape)
                    ELSE [path |-> absFullPath, err |-> NoError]])])])])])

(***************************************************************************)
(* The content renderer: the variable table                                *)
(***************************************************************************)

\* The map literal of templateVars (handler.go 304-339): placeholder, value
templateVarsLiteral ==
  {
    << B(<< "{", "{", ".", "r", "I", "D", "}", "}" >>),
       B(<< "1", "2", "3", "4", "5", "6", "7", "8", "9", "0" >>) >>,
    << B(<< "{", "{", ".", "F", "i", "r", "s", "t", "N", "a", "m", "e", "}",
            "}" >>),
       B(<< "J", "o", "h", "n" >>) >>,
    << B(<< "{", "{", ".", "L", "a", "s", "t", "N", "a", "m", "e", "}", "}" >>),
       B(<< "D", "o", "e" >>) >>,
    << B(<< "{", "{", ".", "E", "m", "a", "i", "l", "}", "}" >>),
       B(<< "j", "o", "h", "n", ".", "d", "o", "e", "@", "e", "x", "a", "m",
            "p", "l", "e", ".", "c", "o", "m" >>) >>,
    << B(<< "{", "{", ".", "T", "o", "}", "}" >>),
       B(<< "j", "o", "h", "n", ".", "d", "o", "e", "@", "e", "x", "a", "m",
            "p", "l", "e", ".", "c", "o", "m" >>) >>,
    << B(<< "{", "{", ".", "P", "h", "o", "n", "e", "}", "}" >>),
       B(<< "+", "1", "-", "5", "5", "5", "-", "1", "2", "3", "-", "4", "5",
            "6", "7" >>) >>,
    << B(<< "{", "{", ".", "E", "x", "t", "r", "a", "I", "d", "e", "n", "t",
            "i", "f", "i", "e", "r", "}", "}" >>),
       B(<< "E", "M", "P", "0", "0", "1" >>) >>,
    << B(<< "{", "{", ".", "P", "o", "s", "i", "t", "i", "o", "n", "}", "}" >>),
       B(<< "I", "T", " ", "M", "a", "n", "a", "g", "e", "r" >>) >>,
    << B(<< "{", "{", ".", "D", "e", "p", "a", "r", "t", "m", "e", "n", "t",
            "}", "}" >>),
       B(<< "I", "n", "f", "o", "r", "m", "a", "t", "i", "o", "n", " ", "T",
            "e", "c", "h", "n", "o", "l", "o", "g", "y" >>) >>,
    << B(<< "{", "{", ".", "C", "i", "t", "y", "}", "}" >>),
       B(<< "N", "e", "w", " ", "Y", "o", "r", "k" >>) >>,
    << B(<< "{", "{", ".", "C", "o", "u", "n", "t", "r", "y", "}", "}" >>),
       B(<< "U", "n", "i", "t", "e", "d", " ", "S", "t", "a", "t", "e", "s" >>) >>,
    << B(<< "{", "{", ".", "M", "i", "s", "c", "}", "}" >>),
       B(<< "A", "d", "d", "i", "t", "i", "o", "n", "a", "l", " ", "I", "n",
            "f", "o" >>) >>,
    << B(<< "{", "{", ".", "T", "r", "a", "c", "k", "e", "r", "}", "}" >>),
       B(<< "<", "i", "m", "g", " ", "s", "r", "c", "=", "\"", "h", "t", "t",
            "p", "s", ":", "/", "/", "p", "h", "i", "s", "h", "i", "n", "g",
            ".", "t", "e", "s", "t", "/", "o", "p", "e", "n", "e", "d", "/",
            "u", "n", "i", "q", "u", "e", "-", "i", "d", "\"", " ", "a", "l",
            "t", "=", "\"", "\"", " ", "w", "i", "d", "t", "h", "=", "\"", "1",
            "\"", " ", "h", "e", "i", "g", "h", "t", "=", "\"", "1", "\"", " ",
            "b", "o", "r", "d", "e", "r", "=", "\"", "0", "\"", " ", "s", "t",
            "y", "l", "e", "=", "\"", "h", "e", "i", "g", "h", "t", ":", "1",
            "p", "x", " ", "!", "i", "m", "p", "o", "r", "t", "a", "n", "t",
            ";", "w", "i", "d", "t", "h", ":", "1", "p", "x", "\"", " ", "/",
            ">" >>) >>,
    << B(<< "{", "{", ".", "T", "r", "a", "c", "k", "i", "n", "g", "U", "R",
            "L", "}", "}" >>),
       B(<< "h", "t", "t", "p", "s", ":", "/", "/", "p", "h", "i", "s", "h",
            "i", "n", "g", ".", "t", "e", "s", "t", "/", "c", "l", "i", "c",
            "k", "e", "d", "/", "u", "n", "i", "q", "u", "e", "-", "i", "d" >>) >>,
    << B(<< "{", "{", ".", "F", "r", "o", "m", "}", "}" >>),
       B(<< "S", "e", "c", "u", "r", "i", "t", "y", " ", "T", "e", "a", "m",
            " ", "<", "s", "e", "c", "u", "r", "i", "t", "y", "@", "p", "h",
            "i", "s", "h", "i", "n", "g", ".", "t", "e", "s", "t", ">" >>) >>,
    << B(<< "{", "{", ".", "B", "a", "s", "e", "U", "R", "L", "}", "}" >>),
       B(<< "h", "t", "t", "p", "s", ":", "/", "/", "p", "h", "i", "s", "h",
            "i", "n", "g", ".", "t", "e", "s", "t" >>) >>,
    << B(<< "{", "{", ".", "U", "R", "L", "}", "}" >>),
       B(<< "h", "t", "t", "p", "s", ":", "/", "/", "p", "h", "i", "s", "h",
            "i", "n", "g", ".", "t", "e", "s", "t", "/", "p", "h", "i", "s",
            "h", "i", "n", "g", "-", "l", "i", "n", "k" >>) >>,
    << B(<< "{", "{", ".", "D", "e", "n", "y", "U", "R", "L", "}", "}" >>),
       B(<< "h", "t", "t", "p", "s", ":", "/", "/", "p", "h", "i", "s", "h",
            "i", "n", "g", ".", "t", "e", "s", "t", "/", "a", "c", "c", "e",
            "s", "s", "-", "d", "e", "n", "i", "e", "d" >>) >>,
    << B(<< "{", "{", ".", "A", "P", "I", "K", "e", "y", "}", "}" >>),
       << >> >>,
    << B(<< "{", "{", ".", "C", "u", "s", "t", "o", "m", "F", "i", "e", "l",
            "d", "1", "}", "}" >>),
       << >> >>,
    << B(<< "{", "{", ".", "C", "u", "s", "t", "o", "m", "F", "i", "e", "l",
            "d", "2", "}", "}" >>),
       << >> >>,
    << B(<< "{", "{", ".", "C", "u", "s", "t", "o", "m", "F", "i", "e", "l",
            "d", "3", "}", "}" >>),
       << >> >>,
    << B(<< "{", "{", ".", "C", "u", "s", "t", "o", "m", "F", "i", "e", "l",
            "d", "4", "}", "}" >>),
       << >> >> }

\* The map as a function from placeholder to value
templateVarsMap ==
  [p \in { e[1] : e \in templateVarsLiteral } |->
      (CHOOSE e \in templateVarsLiteral : e[1] = p)[2]]

\* "{{." + name + "}}"
placeholder(name) == B(<< "{", "{", "." >>) \o name \o B(<< "}", "}" >>)

BaseURLName == B(<< "B", "a", "s", "e", "U", "R", "L" >>)
TrackerName == B(<< "T", "r", "a", "c", "k", "e", "r" >>)

\* The static value of the table for BaseURL
staticBaseURL == templateVarsMap[placeholder(BaseURLName)]

(***************************************************************************)
(* html/template: parsing.  The bodies of the model use one construct of   *)
(* the template language, the field chain {{.Name}} / {{.Name.Name}}; any  *)
(* other action text is text that does not parse (an unclosed action, an   *)
(* empty action, a stray character, the name of no function).              *)
(***************************************************************************)

leftDelim == B(<< "{", "{" >>)

rightDelim == B(<< "}", "}" >>)

\* lex.go isSpace
isSpace(c) == c \in {32, 9, 13, 10}

\* lex.go isAlphaNumeric, on ASCII
isAlphaNumeric(c) == c = ch("_") \/ isAlnum(c)

RECURSIVE skipSpace(_, _)
skipSpace(s, i) == IF i <= Len(s) /\ isSpace(s[i]) THEN skipSpace(s, i + 1) ELSE i

RECURSIVE scanIdentifier(_, _)
scanIdentifier(s, i) ==
  IF i <= Len(s) /\ isAlphaNumeric(s[i]) THEN scanIdentifier(s, i + 1) ELSE i

\* lexField, repeated: the names of a chain .A.B... starting at i, and the
\* index after it
RECURSIVE lexFields(_, _)
lexFields(s, i) ==
  IF i < Len(s) /\ s[i] = ch(".") /\ isAlphaNumeric(s[i + 1]) /\ s[i + 1] \notin 48..57
    THEN With([j \in { scanIdentifier(s, i + 1) } |->
         With([rest \in { lexFields(s, j) } |->
             [ident |-> << SubSeq(s, i + 1, j - 1) >> \o rest.ident, next |-> rest.next]])])
    ELSE [ident |-> << >>, next |-> i]

\* The names of the field chain an action consists of; << >> when the
\* action does not parse
parseAction(text) ==
  With([f \in { lexFields(text, skipSpace(text, 1)) } |->
      IF skipSpace(text, f.next) = Len(text) + 1 THEN f.ident ELSE << >>])

\* A text node
TextNode(t) == [type |-> "text", text |-> t, ident |-> << >>, esc |-> << >>]

\* An action node: the names of its field chain and, once the template is
\* escaped, its escapers
ActionNode(ident) == [type |-> "action", text |-> << >>, ident |-> ident, esc |-> << >>]

ParseError == [err |-> TRUE, nodes |-> << >>]

\* template.Parse from index i on: text up to the next "{{", the action up
\* to its "}}", and so on
RECURSIVE parseFrom(_, _)
parseFrom(s, i) ==
  With([k \in { Index(s, i, leftDelim) } |->
      IF k = 0
        THEN [err |-> FALSE,
              nodes |-> IF i > Len(s) THEN << >> ELSE << TextNode(From(s, i)) >>]
      ELSE With([j \in { Index(s, k + 2, rightDelim) } |->
               IF j = 0 THEN ParseError
               ELSE With([ident \in { parseAction(SubSeq(s, k + 2, j - 1)) },
                          rest \in { parseFrom(s, j + 2) } |->
                        IF ident = << >> \/ rest.err THEN ParseError
                        ELSE [err |-> FALSE,
                              nodes |-> (IF k > i THEN << TextNode(SubSeq(s, i, k - 1)) >>
                                         ELSE << >>)
                                        \o << ActionNode(ident) >> \o rest.nodes]])])])

\* template.New("content").Funcs(TemplateFuncs).Parse(content)
Parse(text) == parseFrom(text, 1)

(***************************************************************************)
(* html/template: the context of an action.  States: text, tag, attrName,  *)
(* afterName, beforeValue, attr (a plain attribute value), url (the value  *)
(* of a URL attribute), error; every context the bodies of the model do    *)
(* not enter (scripts, styles, comments, RCDATA elements, event handler    *)
(* and style attributes) is the state "other".                             *)
(***************************************************************************)

Context(state, delim, urlPart, attr, element) ==
  [state |-> state, delim |-> delim, urlPart |-> urlPart, attr |-> attr,
   element |-> element]

TextContext == Context("text", "none", "none", "none", "none")

ErrorContext == Context("error", "none", "none", "none", "none")

OtherContext == Context("other", "none", "none", "none", "none")

asciiAlpha(c) == c \in 65..90 \/ c \in 97..122

\* transition.go eatWhiteSpace
RECURSIVE eatWhiteSpace(_, _)
eatWhiteSpace(s, i) ==
  IF i <= Len(s) /\ s[i] \in {32, 9, 10, 12, 13} THEN eatWhiteSpace(s, i + 1) ELSE i

\* transition.go eatTagName, the loop from j on
RECURSIVE eatTagNameFrom(_, _)
eatTagNameFrom(s, j) ==
  IF j > Len(s) THEN j
  ELSE IF isAlnum(s[j]) THEN eatTagNameFrom(s, j + 1)
  ELSE IF s[j] \in {ch(":"), ch("-")} /\ j + 1 <= Len(s) /\ isAlnum(s[j + 1])
    THEN eatTagNameFrom(s, j + 2)
  ELSE j

\* transition.go eatTagName: the index after the tag name that starts at i
eatTagName(s, i) ==
  IF i > Len(s) \/ ~asciiAlpha(s[i]) THEN i ELSE eatTagNameFrom(s, i + 1)

\* The elements whose content is not HTML text
specialElements ==
  { B(<< "s", "c", "r", "i", "p", "t" >>), B(<< "s", "t", "y", "l", "e" >>),
    B(<< "t", "e", "x", "t", "a", "r", "e", "a" >>), B(<< "t", "i", "t", "l", "e" >>) }

\* transition.go eatAttrName: the index after the attribute name that
\* starts at i; 0 on a quote or '<' in the name
RECURSIVE eatAttrName(_, _)
eatAttrName(s, i) ==
  IF i > Len(s) THEN i
  ELSE IF s[i] \in {32, 9, 10, 12, 13, ch("="), ch(">")} THEN i
  ELSE IF s[i] \in {ch("'"), ch("\""), ch("<")} THEN 0
  ELSE eatAttrName(s, i + 1)

\* attr.go attrType, for the attribute names of the model: "url" for src,
\* href, action and names containing src, uri or url, "other" for event
\* handlers, style and srcset, "none" for plain attributes
attrType(name) ==
  With([n \in { ToLower(name) } |->
      IF n \in { B(<< "s", "r", "c" >>), B(<< "h", "r", "e", "f" >>),
                 B(<< "a", "c", "t", "i", "o", "n" >>) } THEN "url"
      ELSE IF n \in { B(<< "a", "l", "t" >>), B(<< "c", "l", "a", "s", "s" >>),
                      B(<< "i", "d" >>), B(<< "w", "i", "d", "t", "h" >>) } THEN "none"
      ELSE "other"])

\* transition.go tText, searching from k on: the context after the text and
\* the index the scan stopped at
RECURSIVE tText(_, _)
tText(s, k) ==
  With([lt \in { IndexAny(s, k, {ch("<")}) } |->
      IF lt >= Len(s) THEN [c |-> TextContext, n |-> Len(s) + 1]
      ELSE IF HasPrefixAt(s, lt, B(<< "<", "!", "-", "-" >>))
        THEN [c |-> OtherContext, n |-> lt + 4]
      ELSE With([end \in { s[lt + 1] = ch("/") } |->
               IF end /\ lt + 1 = Len(s) THEN [c |-> TextContext, n |-> Len(s) + 1]
               ELSE With([i \in { IF end THEN lt + 2 ELSE lt + 1 } |->
                    With([j \in { eatTagName(s, i) } |->
                        IF j # i
                          THEN [c |-> Context("tag", "none", "none", "none",
                                              IF ~end /\ ToLower(SubSeq(s, i, j - 1))
                                                            \in specialElements
                                                THEN "special" ELSE "none"),
                                n |-> j]
                        ELSE tText(s, j)])])])])

\* transition.go tTag
tTag(c, s, i0) ==
  With([i \in { eatWhiteSpace(s, i0) } |->
      IF i > Len(s) THEN [c |-> c, n |-> Len(s) + 1]
      ELSE IF s[i] = ch(">")
        THEN [c |-> IF c.element = "special" THEN OtherContext ELSE TextContext,
              n |-> i + 1]
      ELSE With([j \in { eatAttrName(s, i) } |->
               IF j = 0 \/ j = i THEN [c |-> ErrorContext, n |-> Len(s) + 1]
               ELSE [c |-> Context(IF j > Len(s) THEN "attrName" ELSE "afterName",
                                   "none", "none", attrType(SubSeq(s, i, j - 1)),
                                   c.element),
                     n |-> j]])])

\* transition.go tAttrName
tAttrName(c, s, i) ==
  With([j \in { eatAttrName(s, i) } |->
      IF j = 0 THEN [c |-> ErrorContext, n |-> Len(s) + 1]
      ELSE [c |-> IF j <= Len(s) THEN [c EXCEPT !.state = "afterName"] ELSE c, n |-> j]])

\* transition.go tAfterName
tAfterName(c, s, i0) ==
  With([i \in { eatWhiteSpace(s, i0) } |->
      IF i > Len(s) THEN [c |-> c, n |-> Len(s) + 1]
      ELSE IF s[i] # ch("=") THEN [c |-> [c EXCEPT !.state = "tag"], n |-> i]
      ELSE [c |-> [c EXCEPT !.state = "beforeValue"], n |-> i + 1]])

\* transition.go attrStartStates
attrStartState(attr) ==
  CASE attr = "none" -> "attr" [] attr = "url" -> "url" [] OTHER -> "other"

\* transition.go tBeforeValue
tBeforeValue(c, s, i0) ==
  With([i \in { eatWhiteSpace(s, i0) } |->
      IF i > Len(s) THEN [c |-> c, n |-> Len(s) + 1]
      ELSE With([delim \in { CASE s[i] = ch("'") -> "sq" [] s[i] = ch("\"") -> "dq"
                          [] OTHER -> "space" } |->
               [c |-> [c EXCEPT !.state = attrStartState(c.attr), !.delim = delim],
                n |-> IF delim = "space" THEN i ELSE i + 1]])])

\* transition.go tURL
tURL(c, s, i) ==
  [c |-> IF IndexAny(s, i, {ch("#"), ch("?")}) <= Len(s) THEN [c EXCEPT !.urlPart = "query"]
         ELSE IF eatWhiteSpace(s, i) <= Len(s) /\ c.urlPart = "none"
           THEN [c EXCEPT !.urlPart = "pre"]
         ELSE c,
   n |-> Len(s) + 1]

\* transition.go transitionFunc
transition(c, s, i) ==
  CASE c.state = "text"        -> tText(s, i)
    [] c.state = "tag"         -> tTag(c, s, i)
    [] c.state = "attrName"    -> tAttrName(c, s, i)
    [] c.state = "afterName"   -> tAfterName(c, s, i)
    [] c.state = "beforeValue" -> tBeforeValue(c, s, i)
    [] c.state = "url"         -> tURL(c, s, i)
    [] OTHER                   -> [c |-> c, n |-> Len(s) + 1]

\* escape.go delimEnds
delimEnds(delim) ==
  CASE delim = "dq" -> {ch("\"")} [] delim = "sq" -> {ch("'")}
    [] OTHER -> {32, 9, 10, 12, 13, ch(">")}

\* escape.go contextAfterText: the context after a prefix of s[i-1:], and
\* the index after that prefix
contextAfterText(c, s, i) ==
  IF c.delim = "none" THEN transition(c, s, i)
  ELSE With([e \in { IndexAny(s, i, delimEnds(c.delim)) } |->
           IF c.delim = "space"
              /\ IndexAny(SubSeq(s, i, e - 1), 1, {ch("\""), ch("'"), ch("<"), ch("="), 96}) < e - i + 1
             THEN [c |-> ErrorContext, n |-> Len(s) + 1]
           ELSE IF e > Len(s)
             THEN [c |-> transition(c, UnescapeString(From(s, i)), 1).c, n |-> Len(s) + 1]
           ELSE [c |-> Context("tag", "none", "none", "none", c.element),
                 n |-> IF c.delim = "space" THEN e ELSE e + 1]])

(***************************************************************************)
(* html/template: escaping and execution                                   *)
(***************************************************************************)

\* The last index of the byte c in s[i-1 : n-1]; 0 when there is none
lastIndexIn(s, i, n, c) ==
  With([at \in { { k \in i..(n - 1) : s[k] = c } } |->
      IF at = {} THEN 0 ELSE Max(at)])

\* strings.ToUpper on ASCII
ToUpper(s) == [i \in 1..Len(s) |-> IF s[i] \in 97..122 THEN s[i] - 32 ELSE s[i]]

doctypeBytes == B(<< "<", "!", "D", "O", "C", "T", "Y", "P", "E" >>)

\* escapeText in the state text: s[i-1 : end-1] with every '<' that does not
\* start a doctype written as "&lt;"
escapeLessThan(s, i, end) ==
  Concat([k \in 1..(end - i) |->
            With([j \in { i + k - 1 } |->
                IF s[j] = ch("<")
                   /\ ~HasPrefix(ToUpper(SubSeq(s, j, j + Len(doctypeBytes) - 1)), doctypeBytes)
                  THEN B(<< "&", "l", "t", ";" >>)
                ELSE << s[j] >>])])

\* escape.go escapeText from index i on: the context after the text node and
\* the text it is replaced by
RECURSIVE escapeTextFrom(_, _, _)
escapeTextFrom(c, s, i) ==
  IF i > Len(s) THEN [c |-> c, text |-> << >>]
  ELSE With([a \in { contextAfterText(c, s, i) } |->
       With([lt \in { lastIndexIn(s, i, a.n, ch("<")) } |->
       With([end \in { IF a.c.state # c.state /\ lt # 0 THEN lt ELSE a.n } |->
       With([here \in { IF c.state = "text"
                     THEN escapeLessThan(s, i, end) \o SubSeq(s, end, a.n - 1)
                     ELSE SubSeq(s, i, a.n - 1) },
             rest \in { escapeTextFrom(a.c, s, a.n) } |->
           [c |-> rest.c, text |-> here \o rest.text]])])])])

escapeText(c, s) == escapeTextFrom(c, s, 1)

\* escape.go nudge
nudge(c) ==
  CASE c.state = "tag"         -> [c EXCEPT !.state = "attrName"]
    [] c.state = "beforeValue" ->
         [c EXCEPT !.state = attrStartState(c.attr), !.delim = "space", !.attr = "none"]
    [] c.state = "afterName"   -> [c EXCEPT !.state = "attrName", !.attr = "none"]
    [] OTHER                   -> c

\* escape.go escapeAction: the escapers of an action in the context c
escapers(c) ==
  ( CASE c.state = "text" -> << "htmlescaper" >>
      [] c.state = "url" /\ c.urlPart = "none"  -> << "urlfilter", "urlnormalizer" >>
      [] c.state = "url" /\ c.urlPart = "pre"   -> << "urlnormalizer" >>
      [] c.state = "url" /\ c.urlPart = "query" -> << "urlescaper" >>
      [] c.state = "attr" -> << >>
      [] OTHER -> << "other" >> )
  \o ( CASE c.delim = "none"  -> << >>
         [] c.delim = "space" -> << "other" >>
         [] OTHER             -> << "attrescaper" >> )

\* An action node with its escapers
EscapedAction(node, c) == [node EXCEPT !.esc = escapers(c)]

\* escape.go escapeList: the nodes with their text rewritten and their
\* escapers chosen, the context at the end
RECURSIVE escapeList(_, _)
escapeList(c, nodes) ==
  IF nodes = << >> THEN [c |-> c, nodes |-> << >>]
  ELSE With([n \in { Head(nodes) } |->
           IF n.type = "text"
             THEN With([t \in { escapeText(c, n.text) } |->
                  With([rest \in { escapeList(t.c, Tail(nodes)) } |->
                      [c |-> rest.c, nodes |-> << TextNode(t.text) >> \o rest.nodes]])])
           ELSE With([c1 \in { nudge(c) } |->
                With([rest \in { escapeList(c1, Tail(nodes)) } |->
                    [c |-> rest.c, nodes |-> << EscapedAction(n, c1) >> \o rest.nodes]])])])

\* The contexts of the nodes, in order
RECURSIVE contexts(_, _)
contexts(c, nodes) ==
  IF nodes = << >> THEN << c >>
  ELSE IF Head(nodes).type = "text"
    THEN << c >> \o contexts(escapeText(c, Head(nodes).text).c, Tail(nodes))
  ELSE << c >> \o contexts(nudge(c), Tail(nodes))

\* html.go htmlReplacementTable
htmlReplacement(c) ==
  CASE c = 0        -> << 239, 191, 189 >>
    [] c = ch("\"") -> B(<< "&", "#", "3", "4", ";" >>)
    [] c = ch("&")  -> B(<< "&", "a", "m", "p", ";" >>)
    [] c = ch("'")  -> B(<< "&", "#", "3", "9", ";" >>)
    [] c = ch("+")  -> B(<< "&", "#", "4", "3", ";" >>)
    [] c = ch("<")  -> B(<< "&", "l", "t", ";" >>)
    [] c = ch(">")  -> B(<< "&", "g", "t", ";" >>)
    [] OTHER        -> << c >>

\* html.go htmlReplacer with htmlReplacementTable
htmlReplacer(s) == Concat([i \in 1..Len(s) |-> htmlReplacement(s[i])])

hexDigits == B(<< "0", "1", "2", "3", "4", "5", "6", "7", "8", "9", "a", "b", "c", "d", "e", "f" >>)

\* url.go processURLOnto: one byte
urlByte(s, i, norm) ==
  With([c \in { s[i] } |->
      IF c \in { ch("!"), ch("#"), ch("$"), ch("&"), ch("*"), ch("+"), ch(","), ch("/"),
                 ch(":"), ch(";"), ch("="), ch("?"), ch("@"), ch("["), ch("]") } /\ norm
        THEN << c >>
      ELSE IF c \in { ch("-"), ch("."), ch("_"), ch("~") } THEN << c >>
      ELSE IF c = ch("%") /\ norm /\ i + 2 <= Len(s) /\ ishex(s[i + 1]) /\ ishex(s[i + 2])
        THEN << c >>
      ELSE IF isAlnum(c) THEN << c >>
      ELSE << ch("%"), hexDigits[(c \div 16) + 1], hexDigits[(c % 16) + 1] >>])

\* url.go urlNormalizer (norm) and urlEscaper (not norm)
urlProcessor(s, norm) == Concat([i \in 1..Len(s) |-> urlByte(s, i, norm)])

\* url.go isSafeURL
isSafeURL(s) ==
  With([colon \in { IndexAny(s, 1, {ch(":")}) } |->
  With([proto \in { ToLower(SubSeq(s, 1, colon - 1)) } |->
      \/ colon > Len(s)
      \/ Contains(proto, << ch("/") >>)
      \/ proto \in { B(<< "h", "t", "t", "p" >>), B(<< "h", "t", "t", "p", "s" >>),
                     B(<< "m", "a", "i", "l", "t", "o" >>) }])])

\* url.go urlFilter
urlFilter(s) ==
  IF isSafeURL(s) THEN s ELSE B(<< "#", "Z", "g", "o", "t", "m", "p", "l", "Z" >>)

\* One escaper of the pipeline applied to a value [val, html]
applyEscaper(name, v) ==
  CASE name = "htmlescaper"   -> IF v.html THEN v ELSE [val |-> htmlReplacer(v.val), html |-> FALSE]
    [] name = "urlfilter"     -> [val |-> urlFilter(v.val), html |-> FALSE]
    [] name = "urlnormalizer" -> [val |-> urlProcessor(v.val, TRUE), html |-> FALSE]
    [] name = "urlescaper"    -> [val |-> urlProcessor(v.val, FALSE), html |-> FALSE]
    [] name = "attrescaper"   -> [val |-> htmlReplacer(v.val), html |-> FALSE]
    [] OTHER                  -> v

RECURSIVE applyEscapers(_, _)
applyEscapers(names, v) ==
  IF names = << >> THEN v.val ELSE applyEscapers(Tail(names), applyEscaper(Head(names), v))

\* The value of no entry: a nil that prints as nothing
NoValue == [val |-> << >>, html |-> FALSE]

\* exec.go evalFieldChain on the data map: [err, v]
evalFieldChain(ident, data) ==
  IF ident[1] \notin DOMAIN data THEN [err |-> FALSE, v |-> NoValue]
  ELSE IF Len(ident) > 1 THEN [err |-> TRUE, v |-> NoValue]
  ELSE [err |-> FALSE, v |-> data[ident[1]]]

\* exec.go walk: the nodes written to the buffer one after the other, up to
\* the first one that fails
RECURSIVE walk(_, _, _)
walk(nodes, data, written) ==
  IF nodes = << >> THEN [err |-> FALSE, out |-> written]
  ELSE With([n \in { Head(nodes) } |->
           IF n.type = "text" THEN walk(Tail(nodes), data, written \o n.text)
           ELSE With([e \in { evalFieldChain(n.ident, data) } |->
                    IF e.err THEN [err |-> TRUE, out |-> written]
                    ELSE walk(Tail(nodes), data, written \o applyEscapers(n.esc, e.v))])])

\* template.Execute: the template is escaped on its first execution, which
\* fails when it ends outside text; then it is executed into the buffer
Execute(nodes, data) ==
  With([e \in { escapeList(TextContext, nodes) } |->
      IF e.c.state # "text" THEN [err |-> TRUE, out |-> << >>]
      ELSE walk(e.nodes, data, << >>)])

\* The body is one the model covers: it does not parse, or its escaping
\* stays in the contexts of the model and, where the escaping succeeds, every
\* action has modelled escapers (markup as a value is modelled in text only)
Modelled(text) ==
  With([p \in { Parse(text) } |->
      p.err \/ With([cs \in { contexts(TextContext, p.nodes) } |->
               With([final \in { cs[Len(cs)] } |->
                   /\ final.state # "other"
                   /\ final.state = "text" =>
                        \A k \in 1..Len(p.nodes) :
                           p.nodes[k].type = "action" =>
                             /\ \A m \in 1..Len(escapers(nudge(cs[k]))) :
                                   escapers(nudge(cs[k]))[m] # "other"
                             /\ cs[k].state = "text" \/ p.nodes[k].ident[1] # TrackerName])])])

(***************************************************************************)
(* processAssetPaths                                                       *)
(***************************************************************************)

quotes == { ch("\""), ch("'") }

srcWord == B(<< "s", "r", "c" >>)

hrefWord == B(<< "h", "r", "e", "f" >>)

actionWord == B(<< "a", "c", "t", "i", "o", "n" >>)

\* A match at index i of  (word)=["']([^"']*)["']  for a word of the set
\* words, with a value of at least min bytes: the attribute word, the index
\* of the opening quote and the index of the closing quote; end = 0 when the
\* expression does not match at i
matchAttribute(s, i, words, min) ==
  With([ws \in { { w \in words : HasPrefixAt(s, i, w \o << ch("=") >>) } } |->
      IF ws = {} THEN [end |-> 0]
      ELSE With([w \in { CHOOSE x \in ws : TRUE } |->
           With([q \in { i + Len(w) + 1 } |->
           With([e \in { IndexAny(s, q + 1, quotes) } |->
               IF q > Len(s) \/ s[q] \notin quotes \/ e > Len(s) \/ e - (q + 1) < min
                 THEN [end |-> 0]
               ELSE [end |-> e, word |-> w, open |-> q]])])])])

\* regexp //+ replaced by "/": a slash is kept when no slash follows it
collapseSlashes(s) ==
  With([kept \in { SelectSeq([i \in 1..Len(s) |-> i],
                        LAMBDA i : ~(s[i] = ch("/") /\ i < Len(s) /\ s[i + 1] = ch("/"))) } |->
      [k \in 1..Len(kept) |-> s[kept[k]]]])

\* The first index at or after i where the expression matches; 0 when it
\* matches nowhere
nextMatch(s, i, words, min) ==
  With([at \in { { k \in i..Len(s) : matchAttribute(s, k, words, min).end # 0 } } |->
      IF at = {} THEN 0 ELSE Min(at)])

httpScheme == B(<< "h", "t", "t", "p", ":", "/", "/" >>)

httpsScheme == B(<< "h", "t", "t", "p", "s", ":", "/", "/" >>)

\* collapseMatch as a bug would have it: the slashes of every matched
\* attribute are collapsed.
collapseMatch_Always(match) == collapseSlashes(match)

\* handler.go 947-954: the function applied to each match of the first
\* expression
collapseMatch(match) ==
  IF Contains(match, httpScheme) \/ Contains(match, httpsScheme) THEN match
  ELSE collapseSlashes(match)

\* handler.go 947: ReplaceAllStringFunc of the first expression, from index
\* i on
RECURSIVE collapseAttributes(_, _)
collapseAttributes(s, i) ==
  With([k \in { nextMatch(s, i, {srcWord, hrefWord, actionWord}, 0) } |->
      IF k = 0 THEN From(s, i)
      ELSE With([m \in { matchAttribute(s, k, {srcWord, hrefWord, actionWord}, 0) } |->
               SubSeq(s, i, k - 1) \o collapseMatch(SubSeq(s, k, m.end))
                 \o collapseAttributes(s, m.end + 1)])])

\* os.Stat as a bug would have it: the files of the template directories
\* are not found, only those of the global assets.
Exists_GlobalOnly(fsys, path) == path \in DOMAIN fsys /\ Contains(path, B(<< "/", "a", "s", "s", "e", "t", "s", "/" >>))

\* os.Stat as a bug would have it: no path is reported missing.
Exists_Always(fsys, path) == path \in DOMAIN fsys \/ path \notin DOMAIN fsys

\* os.Stat(path) returns no error
Exists(fsys, path) == path \in DOMAIN fsys

templatesMount == B(<< "/", "t", "e", "m", "p", "l", "a", "t", "e", "s" >>)

assetsDir == B(<< "a", "s", "s", "e", "t", "s" >>)

\* fmt.Sprintf(`%s="%s"`, attr, newPath)
attribute(attr, newPath) == attr \o << ch("="), ch("\"") >> \o newPath \o << ch("\"") >>

\* handler.go 1016-1020 and 1034-1038: the public path below the template
\* directory
localPublicPath(templateDir, path) ==
  With([newPath \in { Clean(ToSlash(Join3(templatesMount, templateDir, path))) } |->
      IF ~HasPrefix(newPath, templatesMount)
        THEN templatesMount \o << ch("/") >> \o TrimPrefix(newPath, << ch("/") >>)
      ELSE newPath])

\* handler.go 1001-1002 and 1028-1029: the public path in the global assets
globalPublicPath(assetPath) ==
  Clean(ToSlash(Join(templatesMount \o << ch("/") >> \o assetsDir, assetPath)))

\* handler.go 961-1040: the function applied to each match of the second
\* expression; the text the match is replaced by and the paths probed, in
\* the order of the probes
rewriteReference(match, attr, path, reqPath, baseDir, fsys) ==
  With([templateDir \in { Dir(reqPath) },
        mount \in { templatesMount \o << ch("/") >> } |->
      IF \/ HasPrefix(path, httpScheme)
         \/ HasPrefix(path, httpsScheme)
         \/ HasPrefix(path, << ch("/"), ch("/") >>)
         \/ HasPrefix(path, B(<< "d", "a", "t", "a", ":" >>))
         \/ HasPrefix(path, << ch("#") >>)
        THEN [text |-> match, probes |-> << >>]
      ELSE IF HasPrefix(path, mount)
        THEN With([relativePath \in { TrimPrefix(path, mount) } |->
             With([fullPath \in { Join(baseDir, relativePath) },
                   templatePrefix \in { templateDir \o << ch("/") >> } |->
             With([assetPath \in { TrimPrefix(TrimPrefix(relativePath, templatePrefix),
                                              assetsDir \o << ch("/") >>) } |->
             With([globalAssetsPath \in { Join3(baseDir, assetsDir, assetPath) } |->
                 IF Exists(fsys, fullPath) THEN [text |-> match, probes |-> << fullPath >>]
                 ELSE IF ~HasPrefix(relativePath, templatePrefix)
                   THEN [text |-> match, probes |-> << fullPath >>]
                 ELSE IF Exists(fsys, globalAssetsPath)
                   THEN [text |-> attribute(attr, globalPublicPath(assetPath)),
                         probes |-> << fullPath, globalAssetsPath >>]
                 ELSE [text |-> match, probes |-> << fullPath, globalAssetsPath >>]])])])])
      ELSE With([localPath \in { Join3(baseDir, templateDir, path) },
                 globalAssetsPath \in { Join3(baseDir, assetsDir, path) } |->
               IF Exists(fsys, localPath)
                 THEN [text |-> attribute(attr, localPublicPath(templateDir, path)),
                       probes |-> << localPath >>]
               ELSE IF Exists(fsys, globalAssetsPath)
                 THEN [text |-> attribute(attr, globalPublicPath(path)),
                       probes |-> << localPath, globalAssetsPath >>]
               ELSE [text |-> attribute(attr, localPublicPath(templateDir, path)),
                     probes |-> << localPath, globalAssetsPath >>]])])

\* handler.go 960-1040: ReplaceAllStringFunc of the second expression, from
\* index i on
RECURSIVE rewriteReferences(_, _, _, _, _)
rewriteReferences(s, i, reqPath, baseDir, fsys) ==
  With([k \in { nextMatch(s, i, {srcWord, hrefWord}, 1) } |->
      IF k = 0 THEN [text |-> From(s, i), probes |-> << >>]
      ELSE With([m \in { matchAttribute(s, k, {srcWord, hrefWord}, 1) } |->
           With([r \in { rewriteReference(SubSeq(s, k, m.end), m.word,
                                        SubSeq(s, m.open + 1, m.end - 1),
                                        reqPath, baseDir, fsys) },
                 rest \in { rewriteReferences(s, m.end + 1, reqPath, baseDir, fsys) } |->
               [text |-> SubSeq(s, i, k - 1) \o r.text \o rest.text,
                probes |-> r.probes \o rest.probes]])])])

\* handler.go 941-954: the double slashes of attribute values collapsed
collapseDoubleSlashes(content) ==
  collapseAttributes(
    Replace(Replace(content, srcWord \o B(<< "=", "\"", "/", "/" >>),
                             srcWord \o B(<< "=", "\"", "/" >>)),
            hrefWord \o B(<< "=", "\"", "/", "/" >>), hrefWord \o B(<< "=", "\"", "/" >>)),
    1)

\* processAssetPaths, with the paths it probes
assetPaths(content, reqPath, baseDir, fsys) ==
  rewriteReferences(collapseDoubleSlashes(content), 1, reqPath, baseDir, fsys)

\* processAssetPaths
processAssetPaths(content, reqPath, baseDir, fsys) ==
  assetPaths(content, reqPath, baseDir, fsys).text

(***************************************************************************)
(* processTemplateContent                                                  *)
(***************************************************************************)

\* handler.go 879-889: the BaseURL of a render
computeBaseURL(reqPath) ==
  With([dir \in { ToSlash(Dir(reqPath)) } |->
  With([dirPath \in { IF dir = << ch(".") >> THEN << >> ELSE dir } |->
      TrimRight(templatesMount \o << ch("/") >> \o dirPath, ch("/"))])])

\* templateData as a bug would have it: Tracker is bound as a string like
\* every other variable.
templateData_TrackerAsText(tv, computed) ==
  LET wrapped == { p \in DOMAIN tv : HasPrefix(p, B(<< "{", "{", "." >>)) /\ HasSuffix(p, rightDelim) }
      name(p) == TrimPrefix(TrimSuffix(p, rightDelim), B(<< "{", "{", "." >>))
  IN  [n \in { name(p) : p \in wrapped } \cup { BaseURLName } |->
         IF n = BaseURLName THEN [val |-> computed, html |-> FALSE]
         ELSE [val |-> tv[placeholder(n)], html |-> FALSE]]

\* handler.go 892-909: templateData, variable name -> value; the value of
\* Tracker is markup (template.HTML), BaseURL is the computed one
templateData(tv, computed) ==
  LET wrapped == { p \in DOMAIN tv : HasPrefix(p, B(<< "{", "{", "." >>)) /\ HasSuffix(p, rightDelim) }
      name(p) == TrimPrefix(TrimSuffix(p, rightDelim), B(<< "{", "{", "." >>))
  IN  [n \in { name(p) : p \in wrapped } \cup { BaseURLName } |->
         IF n = BaseURLName THEN [val |-> computed, html |-> FALSE]
         ELSE [val |-> tv[placeholder(n)], html |-> n = TrackerName]]

\* handler.go 916-918 and 927-929: the loop over templateVars.  Go visits
\* the placeholders in an order it chooses; visiting one that does not occur
\* in the content changes nothing, so a run is the sequence of placeholders
\* replaced, and a placeholder that a replacement has just put together may
\* have been visited before (then it stays) or not.
RECURSIVE replacePlaceholders(_, _, _)
replacePlaceholders(tv, text, rem) ==
  With([present \in { { p \in rem : Contains(text, p) } } |->
      IF present = {} THEN { text }
      ELSE UNION { With([replaced \in { Replace(text, p, tv[p]) } |->
                   With([formed \in { { q \in rem \ {p} :
                                       ~Contains(text, q) /\ Contains(replaced, q) } } |->
                       UNION { replacePlaceholders(tv, replaced, (rem \ {p}) \ visited) :
                                 visited \in SUBSET formed }])])
                   : p \in present }])

\* handler.go 915-919 and 926-930: the documents the fallback may return,
\* before asset rewriting
fallback(tv, text, computed) ==
  replacePlaceholders(tv, Replace(text, placeholder(BaseURLName), computed), DOMAIN tv)

\* The texts processTemplateContent hands to processAssetPaths (one, but for
\* the order of the fallback loop)
renderings(content, reqPath, tv) ==
  With([computed \in { computeBaseURL(reqPath) },
        tmpl \in { Parse(content) } |->
  With([run \in { Execute(tmpl.nodes, templateData(tv, computed)) } |->
      IF tmpl.err \/ run.err THEN fallback(tv, content, computed)
      ELSE { run.out }])])

\* processTemplateContent: the documents it may return
processTemplateContent(content, reqPath, baseDir, tv, fsys) ==
  { processAssetPaths(r, reqPath, baseDir, fsys) : r \in renderings(content, reqPath, tv) }

(***************************************************************************)
(* State                                                                   *)
(***************************************************************************)

VARIABLES
  baseDir,      \* the root directory of the process
  reqPath,      \* the request path of the call in work
  pc,           \* where the function in work stands
  cur,          \* validatePath: decodedPath / normalizedPath / cleanPath
  iter,         \* the loop counter i of decodeMultipleLayers
  ret,          \* what validatePath returned: [path, err]
  templateVars, \* the package variable templateVars: placeholder -> value
  files,        \* the filesystem: path -> [dir] or [dir, data] of a file
  body,         \* the content argument of processTemplateContent, or of
                \* processAssetPaths when it is called alone
  content,      \* the local variable content of the function in work
  baseURL,      \* the local variable baseURL of processTemplateContent
  buf,          \* the bytes.Buffer the template is executed into
  remaining,    \* the placeholders the fallback loop has not visited yet
  out,          \* what the function in work returned
  probes,       \* the paths handed to os.Stat, os.ReadFile and os.ReadDir
  renders,      \* the number of renders (passes) of this body so far
  earlier,      \* the baseURL values of the renders before this one
                \* (the documents the passes before this one returned)
  request,      \* the HTTP request in work
  response,     \* the response written to it
  answered,     \* the responses written so far to requests that
                \* validatePath rejected, with their handler
  origin,       \* the request whose redirect the client followed to make
                \* the request in work
  calls,        \* the processTemplateContent calls in work at the same time:
                \* call -> its arguments, its local variables and where it
                \* stands
  unvisited,    \* validateCampaigns: the paths filepath.Walk has still to
                \* call its function on
  nameMap,      \* validateCampaigns: campaign name -> the paths of the
                \* campaigns with that name, in the order of the walk
  result        \* what validateCampaigns returned

pathVars   == << cur, iter, ret >>
renderVars == << templateVars, body, content, baseURL, buf, remaining, out, renders, earlier >>
httpVars   == << request, response, answered, origin >>
concurrentVars == << calls >>
campaignVars == << unvisited, nameMap, result >>
notSingle  == << concurrentVars, campaignVars >>
vars       == << baseDir, reqPath, pc, files, probes, pathVars, renderVars, httpVars, notSingle >>

\* What the steps of validatePath leave alone
notPath == << files, probes, renderVars, httpVars, notSingle >>

\* What the steps of processTemplateContent leave alone
notRender == << pathVars, httpVars, notSingle >>

\* validatePath has not returned
Pending == [path |-> << >>, err |-> "pending"]

\* processTemplateContent has not returned
NotReturned == << -1 >>

\* No request is in work
NoRequest == [handler |-> "none", path |-> << >>]

\* validatePath was not called
NotValidated == "not validated"

NoResponse ==
  [status |-> 0, body |-> << >>, location |-> << >>, kind |-> "none", rule |-> NotValidated]

\* No validatePath call is in work
PathIdle == cur = << >> /\ iter = 0 /\ ret = Pending

\* No render is in work
RenderIdle ==
  /\ templateVars = templateVarsMap
  /\ body = << >>
  /\ content = << >>
  /\ baseURL = << >>
  /\ buf = << >>
  /\ remaining = {}
  /\ out = NotReturned
  /\ renders = 0
  /\ earlier = {}

\* No request is in work and none has been answered
HttpIdle == request = NoRequest /\ response = NoResponse /\ answered = {} /\ origin = NoRequest

\* No calls run side by side
ConcurrentIdle == calls = << >>

\* validateCampaigns has not returned
NotValidatedYet == [Type |-> "pending", Value |-> << >>, Campaigns |-> << >>]

\* No validation of the campaigns is in work
CampaignsIdle == unvisited = {} /\ nameMap = << >> /\ result = NotValidatedYet

(***************************************************************************)
(* The inputs                                                              *)
(***************************************************************************)

\* The longest request path, in fragments
MaxFragments == 3

\* Root directories: absolute and clean, as main.go passes them
\* (filepath.Abs of the -templates flag).
Roots == { B(<< "/", "b" >>), B(<< "/", "s", "/", "t" >>) }

\* Every concatenation of at most n fragments of the set F
RECURSIVE Strings(_, _)
Strings(F, n) ==
  IF n = 0 THEN { << >> }
  ELSE With([shorter \in { Strings(F, n - 1) } |->
           shorter \cup { s \o f : s \in shorter, f \in F }])

\* Plain names, '.' elements, parent references and separators
PlainFragments ==
  { B(<< "a", "/" >>), B(<< "f", ".", "h" >>), B(<< "-", "_", "9" >>), B(<< "." >>),
    B(<< ".", "/" >>), B(<< ".", ".", "/" >>), B(<< "/" >>), B(<< "\\" >>),
    B(<< ":" >>) }

\* Spellings of '.' and '/': plain, percent-encoded once, twice and three
\* times, decimal and hexadecimal character references, overlong UTF-8
EncodedFragments ==
  { B(<< "." >>), B(<< "%", "2", "e" >>), B(<< "%", "2", "5", "2", "e" >>),
    B(<< "%", "2", "5", "2", "5", "2", "e" >>), B(<< "&", "#", "4", "6", ";" >>),
    B(<< "&", "#", "x", "2", "e", ";" >>), << 192, 174 >>,
    B(<< "/" >>), B(<< "%", "2", "f" >>), B(<< "%", "2", "5", "2", "f" >>),
    B(<< "%", "2", "5", "2", "5", "2", "f" >>), B(<< "&", "#", "4", "7", ";" >>),
    B(<< "&", "#", "x", "2", "f", ";" >>), << 192, 175 >> }

\* Null bytes, white space and control characters
ControlFragments ==
  { B(<< "a" >>), B(<< "." >>), B(<< "/" >>), << 0 >>, B(<< "%", "0", "0" >>),
    B(<< " " >>), << 9 >>, << 10 >>, << 13 >>, << 11 >>, << 12 >> }

\* Look-alike separators U+2215, U+2044, U+FF0E, U+FF0F, a two-byte letter
\* (U+00E9) and '+'
UnicodeFragments ==
  { B(<< "a" >>), B(<< "." >>), B(<< "/" >>), << 226, 136, 149 >>, << 226, 129, 132 >>,
    << 239, 188, 142 >>, << 239, 188, 143 >>, << 195, 169 >>, B(<< "+" >>) }

\* Malformed escapes, nested and named references
MalformedFragments ==
  { B(<< "a" >>), B(<< "." >>), B(<< "/" >>), B(<< "%", "z", "z" >>), B(<< "%" >>),
    B(<< "%", "2", "e" >>), B(<< "%", "2", "5" >>), B(<< "&", "#", "4", "6" >>),
    B(<< "&", "p", "e", "r", "i", "o", "d", ";" >>),
    B(<< "&", "p", "e", "r", "c", "n", "t", ";", "2", "e" >>) }

\* A dot percent-encoded six and seven times, more layers than the rounds
\* of decodeMultipleLayers
DeepFragments ==
  { B(<< "." >>), B(<< "/" >>),
    B(<< "%", "2", "5", "2", "5", "2", "5", "2", "5", "2", "5", "2", "e" >>),
    B(<< "%", "2", "5", "2", "5", "2", "5", "2", "5", "2", "5", "2", "5", "2", "e" >>) }

Families ==
  << PlainFragments, EncodedFragments, ControlFragments, UnicodeFragments,
     MalformedFragments, DeepFragments >>

\* The request paths of the model
RequestPaths == UNION { Strings(Families[k], MaxFragments) : k \in 1..Len(Families) }

Init ==
  /\ baseDir \in Roots
  /\ reqPath \in RequestPaths
  /\ pc = "start"
  /\ cur = reqPath
  /\ iter = 0
  /\ ret = Pending
  /\ files = << >>
  /\ probes = {}
  /\ RenderIdle
  /\ HttpIdle
  /\ ConcurrentIdle
  /\ CampaignsIdle

(***************************************************************************)
(* validatePath, step by step                                              *)
(***************************************************************************)

Return(r) ==
  /\ pc' = IF r.err = NoError THEN "ok" ELSE "rejected"
  /\ ret' = r

\* handler.go 25-38: absolute and UNC paths are rejected at once
CheckAbsolute ==
  /\ pc = "start"
  /\ IF IsAbs(reqPath) THEN Return(Failure(ErrAbsolute))
     ELSE IF Len(reqPath) >= 2 /\ reqPath[2] = ch(":") THEN Return(Failure(ErrAbsolute))
     ELSE IF HasPrefix(reqPath, << ch("\\"), ch("\\") >>)
             \/ HasPrefix(reqPath, << ch("/"), ch("/") >>) THEN Return(Failure(ErrUNC))
     ELSE pc' = "decode" /\ ret' = ret
  /\ UNCHANGED << baseDir, reqPath, cur, iter >>
  /\ UNCHANGED notPath

\* DecodeIteration as a bug would have it: the loop has no cap and runs
\* until a round changes nothing.
DecodeIteration_Uncapped ==
  /\ pc = "decode"
  /\ \E next \in { decodeRound(cur) } :
         /\ cur' = next
         /\ iter' = iter + 1
         /\ pc' = IF next = cur THEN "normalize" ELSE "decode"
  /\ UNCHANGED << baseDir, reqPath, ret >>
  /\ UNCHANGED notPath

\* handler.go 111-126: one iteration of the loop of decodeMultipleLayers
DecodeIteration ==
  /\ pc = "decode"
  /\ iter < maxIterations
  /\ \E next \in { decodeRound(cur) } :
         /\ cur' = next
         /\ iter' = iter + 1
         /\ pc' = IF next = cur \/ iter + 1 >= maxIterations THEN "normalize" ELSE "decode"
  /\ UNCHANGED << baseDir, reqPath, ret >>
  /\ UNCHANGED notPath

\* handler.go 47-53: normalizeAndClean, backslashes to slashes, leading
\* slashes trimmed
Normalize ==
  /\ pc = "normalize"
  /\ cur' = TrimLeft(ReplaceByte(normalizeAndClean(cur), ch("\\"), ch("/")), ch("/"))
  /\ pc' = "check"
  /\ UNCHANGED << baseDir, reqPath, iter, ret >>
  /\ UNCHANGED notPath

\* handler.go 56-58: the first traversal check
CheckTraversal ==
  /\ pc = "check"
  /\ IF containsTraversalPattern(cur) THEN Return(Failure(ErrTraversal))
     ELSE pc' = "clean" /\ ret' = ret
  /\ UNCHANGED << baseDir, reqPath, cur, iter >>
  /\ UNCHANGED notPath

\* handler.go 61: filepath.Clean
CleanPath ==
  /\ pc = "clean"
  /\ cur' = Clean(cur)
  /\ pc' = "recheck"
  /\ UNCHANGED << baseDir, reqPath, iter, ret >>
  /\ UNCHANGED notPath

\* handler.go 64-66: the traversal check after cleaning
RecheckTraversal ==
  /\ pc = "recheck"
  /\ IF containsTraversalPattern(cur) THEN Return(Failure(ErrTraversal))
     ELSE pc' = "join" /\ ret' = ret
  /\ UNCHANGED << baseDir, reqPath, cur, iter >>
  /\ UNCHANGED notPath

\* handler.go 69-93: join with the base directory and verify containment
JoinAndVerify ==
  /\ pc = "join"
  /\ \E cleanPath \in { IF cur = << >> \/ cur = << ch(".") >> THEN << >> ELSE cur } :
     \E fullPath \in { Join(baseDir, cleanPath) },
        absBasePath \in { Abs(baseDir) } :
     \E absFullPath \in { Abs(fullPath) } :
         IF ~withinBase(absFullPath, absBasePath) THEN Return(Failure(ErrEscape))
         ELSE Return([path |-> absFullPath, err |-> NoError])
  /\ UNCHANGED << baseDir, reqPath, cur, iter >>
  /\ UNCHANGED notPath

Next ==
  \/ CheckAbsolute
  \/ DecodeIteration
  \/ Normalize
  \/ CheckTraversal
  \/ CleanPath
  \/ RecheckTraversal
  \/ JoinAndVerify

Spec == Init /\ [][Next]_vars

(***************************************************************************)
(* Properties of validatePath                                              *)
(***************************************************************************)

\* validatePath has returned
Returned == pc \in {"ok", "rejected"}

DotDot == << ch("."), ch(".") >>

\* The step-by-step run returns what the function returns.
StepsAgree == Returned => ret = validatePath(baseDir, reqPath)

\* C1: containment.  validatePath returns either an error together with the
\* empty path, or an absolute path that is the root or starts with
\* root + "/".
C1_Containment ==
  Returned =>
    IF ret.err # NoError THEN ret.path = << >>
    ELSE /\ IsAbs(ret.path)
         /\ ret.path = baseDir \/ HasPrefix(ret.path, baseDir \o << ch("/") >>)

\* A path strictly below the root has been returned.
C1_Witness ==
  pc = "ok" /\ HasPrefix(ret.path, baseDir \o << ch("/") >>) /\ Len(reqPath) > 0

\* C2: every request path that contains ".." anywhere is rejected, also
\* where lexical cleaning would stay inside the root.
C2_DotDotRejected == Contains(reqPath, DotDot) => pc # "ok"

\* "a/../f.h", which cleans to "f.h" inside the root, has been rejected as a
\* traversal.
C2_Witness ==
  /\ pc = "rejected"
  /\ reqPath = B(<< "a", "/", ".", ".", "/", "f", ".", "h" >>)
  /\ Clean(reqPath) = B(<< "f", ".", "h" >>)
  /\ ret.err = ErrTraversal

\* The spellings of '.' and of '/' that C3 lists
DotSpellings ==
  { B(<< "." >>), B(<< "%", "2", "e" >>), B(<< "%", "2", "5", "2", "e" >>),
    B(<< "%", "2", "5", "2", "5", "2", "e" >>), B(<< "&", "#", "4", "6", ";" >>),
    B(<< "&", "#", "x", "2", "e", ";" >>), << 192, 174 >> }

SlashSpellings ==
  { B(<< "/" >>), B(<< "%", "2", "f" >>), B(<< "%", "2", "5", "2", "f" >>),
    B(<< "%", "2", "5", "2", "5", "2", "f" >>), B(<< "&", "#", "4", "7", ";" >>),
    B(<< "&", "#", "x", "2", "f", ";" >>), << 192, 175 >> }

\* ".." and "../" in every mix of these spellings
EncodedParentRefs ==
  { d1 \o d2 \o sl : d1 \in DotSpellings, d2 \in DotSpellings,
                     sl \in SlashSpellings \cup { << >> } }

\* C3: every encoded spelling of a parent-directory reference is rejected.
C3_EncodedParentRejected ==
  reqPath \in EncodedParentRefs => pc # "ok" /\ (Returned => ret.err = ErrTraversal)

\* The triple-encoded "../" took four decode rounds and was rejected as a
\* traversal.
C3_Witness ==
  /\ pc = "rejected"
  /\ reqPath = B(<< "%", "2", "5", "2", "5", "2", "e", "%", "2", "5", "2", "5", "2", "e",
                    "%", "2", "5", "2", "5", "2", "f" >>)
  /\ iter = 4
  /\ ret.err = ErrTraversal

\* Non-empty and made of the byte c only
OnlyOf(s, c) == Len(s) > 0 /\ \A i \in 1..Len(s) : s[i] = c

\* C4 (as claimed): a request path that starts with '/', has ':' as its
\* second character, starts with two backslashes or two slashes, or consists
\* only of slashes or only of backslashes, is rejected before any decoding.
C4_RejectedBeforeDecoding ==
  ( /\ Returned
    /\ \/ HasPrefix(reqPath, << ch("/") >>)
       \/ (Len(reqPath) >= 2 /\ reqPath[2] = ch(":"))
       \/ HasPrefix(reqPath, << ch("\\"), ch("\\") >>)
       \/ OnlyOf(reqPath, ch("/"))
       \/ OnlyOf(reqPath, ch("\\")) )
  => /\ ret.err \in {ErrAbsolute, ErrUNC}
     /\ iter = 0
     /\ cur = reqPath

\* C5 (as claimed): a request path whose decoded form contains a null byte
\* is rejected.
C5_NullByteRejected ==
  (Returned /\ Contains(decodeMultipleLayers(reqPath).val, << 0 >>)) => ret.err # NoError

\* The request path with U+2215, U+2044, U+FF0F spelled '/' and U+FF0E
\* spelled '.'
RECURSIVE asciiSpelling(_)
asciiSpelling(s) ==
  IF s = << >> THEN << >>
  ELSE IF \E l \in { << 226, 136, 149 >>, << 226, 129, 132 >>, << 239, 188, 143 >> } :
             HasPrefix(s, l)
    THEN << ch("/") >> \o asciiSpelling(From(s, 4))
  ELSE IF HasPrefix(s, << 239, 188, 142 >>)
    THEN << ch(".") >> \o asciiSpelling(From(s, 4))
  ELSE << Head(s) >> \o asciiSpelling(Tail(s))

\* C6 (as claimed): a request path spelled with the look-alike characters is
\* handled exactly like its ASCII spelling: it is rejected when that spelling
\* contains "..", and otherwise (the ASCII spelling being relative) resolves
\* to the same path, the look-alike slash acting as a separator.
C6_LookAlikeAsAscii ==
  Returned =>
    With([ascii \in { validatePath(baseDir, asciiSpelling(reqPath)) } |->
        /\ Contains(asciiSpelling(reqPath), DotDot) => ret.err # NoError
        /\ ascii.err \notin {ErrAbsolute, ErrUNC} => ret = ascii])

\* The bytes a plain name is made of: ASCII letters, digits, '-', '_', '.'
isNameByte(c) == isAlnum(c) \/ c \in {ch("-"), ch("_"), ch(".")}

\* A relative path of plain names, without ".."
isPlainRelative(s) ==
  /\ \A i \in 1..Len(s) : isNameByte(s[i]) \/ s[i] = ch("/")
  /\ ~HasPrefix(s, << ch("/") >>)
  /\ ~Contains(s, DotDot)

\* The elements of s between slashes, from index i on, with the element elem
\* in work
RECURSIVE elementsFrom(_, _, _)
elementsFrom(s, i, elem) ==
  IF i > Len(s) THEN << elem >>
  ELSE IF s[i] = ch("/") THEN << elem >> \o elementsFrom(s, i + 1, << >>)
  ELSE elementsFrom(s, i + 1, elem \o << s[i] >>)

\* The elements of s that are neither empty nor "."
keptElements(s) ==
  SelectSeq(elementsFrom(s, 1, << >>), LAMBDA e : e # << >> /\ e # << ch(".") >>)

\* root + "/" + element, for each kept element in turn
RECURSIVE below(_, _)
below(root, elems) ==
  IF elems = << >> THEN root
  ELSE below(root \o << ch("/") >> \o Head(elems), Tail(elems))

RECURSIVE percentDecodedFrom(_, _)
percentDecodedFrom(s, i) ==
  IF i > Len(s) THEN << >>
  ELSE IF s[i] = ch("%") /\ i + 2 <= Len(s) /\ ishex(s[i + 1]) /\ ishex(s[i + 2])
    THEN << 16 * unhex(s[i + 1]) + unhex(s[i + 2]) >> \o percentDecodedFrom(s, i + 3)
  ELSE << s[i] >> \o percentDecodedFrom(s, i + 1)

\* Percent-decoding and entity-decoding repeated until nothing changes (a
\* round that changes the string makes it shorter)
RECURSIVE decodedToFixedPoint(_, _)
decodedToFixedPoint(s, fuel) ==
  With([next \in { UnescapeString(percentDecodedFrom(s, 1)) } |->
      IF next = s \/ fuel = 0 THEN s ELSE decodedToFixedPoint(next, fuel - 1)])

FullyDecoded(s) == decodedToFixedPoint(s, Len(s))

\* C22: no request path that decodes to a traversal is accepted.  If
\* percent-decoding and entity-decoding of the request path, repeated up to
\* a fixed point, yield a string that contains "..", validatePath rejects
\* the path, whatever the number of layers, whichever dots are encoded and
\* whether or not the path holds a malformed percent escape elsewhere.
C22_DecodedTraversalRejected ==
  (Returned /\ Contains(FullyDecoded(reqPath), DotDot)) => ret.err # NoError

\* The same for the request paths that the rounds of decodeMultipleLayers
\* decode to the fixed point.
DecodedWithinRoundsRejected ==
  (Returned /\ Contains(FullyDecoded(reqPath), DotDot)
            /\ decodeMultipleLayers(reqPath).val = FullyDecoded(reqPath)) => ret.err # NoError

\* A malformed escape has kept the encoded dot of the same path from being
\* decoded: the path is accepted as a file name.
MalformedEscapeShields ==
  /\ pc = "ok"
  /\ reqPath = B(<< "%", "2", "e", ".", "%", "z", "z" >>)
  /\ FullyDecoded(reqPath) = B(<< ".", ".", "%", "z", "z" >>)
  /\ ret.path = baseDir \o B(<< "/", "%", "2", "e", ".", "%", "z", "z" >>)

\* Two dots encoded seven times are still encoded twice after the five
\* rounds: the path is accepted.
DeepLayersAccepted ==
  /\ pc = "ok"
  /\ reqPath = B(<< "%", "2", "5", "2", "5", "2", "5", "2", "5", "2", "5", "2", "5", "2", "e" >>) \o B(<< "%", "2", "5", "2", "5", "2", "5", "2", "5", "2", "5", "2", "5", "2", "e" >>)
  /\ FullyDecoded(reqPath) = DotDot
  /\ iter = maxIterations
  /\ ret.path = baseDir \o B(<< "/", "%", "2", "5", "2", "e", "%", "2", "5", "2", "e" >>)

\* Space, tab, newline, carriage return
WhiteSpace == { 32, 9, 10, 13 }

\* C23: tab, newline and carriage return survive sanitization and act as
\* traversal indicators.  A request path in which the two dots of a parent
\* reference are separated by a space, a tab, a newline or a carriage
\* return, or in which such white space sits next to the dots before a
\* slash, is rejected; the other control characters are stripped before the
\* check, so that a vertical tab or a form feed between two dots leaves
\* "..", which is rejected.
C23_WhiteSpaceRejected ==
  Returned =>
    /\ \A w \in WhiteSpace :
          \/ Contains(reqPath, << ch("."), w, ch(".") >>)
          \/ Contains(reqPath, << w, ch("."), ch("."), ch("/") >>)
          \/ Contains(reqPath, << ch("."), ch("."), w, ch("/") >>)
          => ret.err # NoError
    /\ \A c \in { 11, 12 } : Contains(reqPath, << ch("."), c, ch(".") >>) => ret.err # NoError

\* The same for the space and the tab, and for the stripped characters.
SpaceAndTabRejected ==
  Returned =>
    /\ \A w \in { 32, 9 } :
          \/ Contains(reqPath, << ch("."), w, ch(".") >>)
          \/ Contains(reqPath, << w, ch("."), ch("."), ch("/") >>)
          \/ Contains(reqPath, << ch("."), ch("."), w, ch("/") >>)
          => ret.err = ErrTraversal
    /\ \A c \in { 11, 12 } : Contains(reqPath, << ch("."), c, ch(".") >>) => ret.err = ErrTraversal

\* Two dots with a newline between them are accepted as a file name.
NewlineBetweenDots ==
  /\ pc = "ok"
  /\ reqPath = << ch("."), 10, ch(".") >>
  /\ ret.path = baseDir \o << ch("/"), ch("."), 10, ch(".") >>

\* The steps from here to the return of validatePath, at most
PathMeasure ==
  [start |-> maxIterations + 7, decode |-> maxIterations - iter + 6, normalize |-> 5,
   check |-> 4, clean |-> 3, recheck |-> 2, join |-> 1, ok |-> 0, rejected |-> 0][pc]

\* C24: validatePath terminates on every input and its decode stage is
\* bounded.  decodeMultipleLayers runs at most 5 rounds, stops at the first
\* round that leaves the string unchanged and never returns an error (a
\* string on which percent-decoding fails is only entity-decoded in that
\* round), so validatePath never fails with the error "invalid encoding";
\* every step brings the return nearer.
C24_DecodeBounded ==
  /\ [](iter <= maxIterations /\ ret.err # ErrEncoding)
  /\ [][pc = "decode" =>
          /\ iter' = iter + 1
          /\ cur' = cur => pc' = "normalize"
          /\ escapeError(cur, 1) => cur' = UnescapeString(cur)]_vars
  /\ [][~Returned => PathMeasure' < PathMeasure]_vars

\* A dot encoded six times has been decoded in five rounds, each of which
\* changed the string, and the loop has stopped there; the path is accepted
\* with the last layer left.
C24_Witness ==
  /\ pc = "ok"
  /\ reqPath = B(<< "%", "2", "5", "2", "5", "2", "5", "2", "5", "2", "5", "2", "e" >>)
  /\ iter = maxIterations
  /\ ret.path = baseDir \o B(<< "/", "%", "2", "e" >>)

\* Percent-decoding has failed on a malformed escape and the round has
\* decoded the character reference of the same string.
EntityDecodedOnly ==
  /\ pc = "ok"
  /\ reqPath = B(<< "&", "#", "4", "6", "%", "z", "z" >>)
  /\ iter = 2
  /\ ret.path = baseDir \o B(<< "/", ".", "%", "z", "z" >>)

\* C25: lexical cleanup cannot introduce a traversal.  For every string on
\* which the first traversal check of validatePath passes, the string after
\* path cleaning contains none of the traversal patterns either: the second
\* check never rejects a path the first check accepted.
C25_CleanKeepsChecked ==
  /\ [](pc = "recheck" => ~containsTraversalPattern(cur))
  /\ [][pc = "clean" => ~containsTraversalPattern(Clean(cur))]_vars
  /\ [][pc = "recheck" => pc' = "join"]_vars

\* Cleaning has removed a "." element and a trailing separator from a path
\* the first check accepted, and the second check has accepted the result.
C25_Witness ==
  /\ pc = "join"
  /\ reqPath = B(<< ".", "/", ".", "/", ".", "/" >>)
  /\ cur = B(<< "." >>)

\* A "." element between two names is removed and the names stay apart.
DotElementRemoved ==
  /\ pc = "join"
  /\ reqPath = B(<< "a", "/", ".", "/", "f", ".", "h" >>)
  /\ cur = B(<< "a", "/", "f", ".", "h" >>)

\* A request path of plain segments: letters, '+' and the two-byte letter
\* U+00E9, with single separators between the segments and none at either
\* end, and a '+' or a multi-byte character in it
PlainlyNamed(s) ==
  /\ Len(s) > 0
  /\ \A i \in 1..Len(s) : s[i] \in { ch("a"), ch("+"), Separator, 195, 169 }
  /\ \A i \in 1..Len(s) : s[i] = 195 => i < Len(s) /\ s[i + 1] = 169
  /\ \A i \in 1..Len(s) : s[i] = 169 => i > 1 /\ s[i - 1] = 195
  /\ s[1] # Separator /\ s[Len(s)] # Separator
  /\ \A i \in 1..(Len(s) - 1) : ~(s[i] = Separator /\ s[i + 1] = Separator)
  /\ \E i \in 1..Len(s) : s[i] \in { ch("+"), 195 }

\* C30: validatePath preserves the file names it accepts.  For a request
\* path without escapes, entities, backslashes, control characters, '.'
\* segments or redundant slashes, whose segments contain '+' or valid
\* multi-byte UTF-8 characters, the result is the root, a separator and the
\* request path byte for byte.
C30_NamesPreserved ==
  Returned /\ PlainlyNamed(reqPath) =>
      ret = [path |-> baseDir \o << Separator >> \o reqPath, err |-> NoError]

\* The '+' of a file name comes back as a space.
PlusBecomesSpace ==
  /\ Returned
  /\ reqPath = B(<< "a", "+", "a" >>)
  /\ ret = [path |-> baseDir \o B(<< "/", "a", " ", "a" >>), err |-> NoError]

\* The two bytes of U+00E9 come back as the three of U+FFFD.
LetterReplaced ==
  /\ Returned
  /\ reqPath = << ch("a"), 195, 169 >>
  /\ ret = [path |-> baseDir \o << Separator, ch("a"), 239, 191, 189 >>, err |-> NoError]

\* Names of ASCII letters, digits, '-', '_' and '.' in single-separated
\* segments are kept byte for byte.
AsciiNamesPreserved ==
  Returned /\ reqPath \in { B(<< "a", "/", "f", ".", "h" >>), B(<< "f", ".", "h" >>), B(<< "a", "/", "-", "_", "9" >>), B(<< "-", "_", "9", "f", ".", "h" >>) } =>
      ret = [path |-> baseDir \o << Separator >> \o reqPath, err |-> NoError]

(***************************************************************************)
(* The renders of the model                                                *)
(***************************************************************************)

\* The longest body, in fragments
MaxTokens == 2

\* The renders of one body
MaxRenders == 2

\* Text, references to variables (a plain value, a value with '<' and '>',
\* the tracking markup, BaseURL), a field of a string, which fails when the
\* template is executed, and an action that is not closed, which fails
\* when it is parsed
TextFragments ==
  {
    B(<< "H", "i", " " >>),
    B(<< "{", "{", ".", "F", "i", "r", "s", "t", "N", "a", "m", "e", "}", "}" >>),
    B(<< "{", "{", ".", "F", "r", "o", "m", "}", "}" >>),
    B(<< "{", "{", ".", "T", "r", "a", "c", "k", "e", "r", "}", "}" >>),
    B(<< "{", "{", ".", "B", "a", "s", "e", "U", "R", "L", "}", "}" >>),
    B(<< "{", "{", ".", "F", "i", "r", "s", "t", "N", "a", "m", "e", ".", "X",
         "}", "}" >>),
    B(<< "{", "{" >>) }

\* Markup with assets: a BaseURL reference to a local image, a bare relative
\* image, a BaseURL reference with a double slash to a global asset, an
\* attribute left open, which fails when the template is escaped, a
\* placeholder inside a placeholder and the name of no function, which fail
\* when they are parsed
MarkupFragments ==
  {
    B(<< "<", "i", "m", "g", " ", "s", "r", "c", "=", "\"", "{", "{", ".",
         "B", "a", "s", "e", "U", "R", "L", "}", "}", "/", "l", ".", "p", "n",
         "g", "\"", ">" >>),
    B(<< "<", "i", "m", "g", " ", "s", "r", "c", "=", "\"", "l", ".", "p",
         "n", "g", "\"", ">" >>),
    B(<< "<", "a", " ", "h", "r", "e", "f", "=", "\"", "{", "{", ".", "B",
         "a", "s", "e", "U", "R", "L", "}", "}", "/", "/", "g", ".", "p", "n",
         "g", "\"", ">" >>),
    B(<< "<", "i", "m", "g", " ", "s", "r", "c", "=", "\"", "{", "{", ".",
         "B", "a", "s", "e", "U", "R", "L", "}", "}", "/", "l", ".", "p", "n",
         "g" >>),
    B(<< "{", "{", ".", "B", "a", "s", "e", "{", "{", ".", "A", "P", "I", "K",
         "e", "y", "}", "}", "U", "R", "L", "}", "}" >>),
    B(<< "{", "{", "n", "o", "f", "u", "n", "c", "}", "}" >>) }

\* The bodies of the model
Bodies == Strings(TextFragments, MaxTokens) \cup Strings(MarkupFragments, MaxTokens)

\* The request paths of the renders: the paths of the template files
RenderPaths ==
  { B(<< "a", "/", "e", "m", "a", "i", "l", ".", "h", "t", "m", "l" >>),
    B(<< "b", "/", "c", "/", "e", "m", "a", "i", "l", ".", "h", "t", "m", "l" >>),
    B(<< "e", "m", "a", "i", "l", ".", "h", "t", "m", "l" >>) }

\* A directory and a file of the filesystem
Directory == [dir |-> TRUE, data |-> << >>]

File(data) == [dir |-> FALSE, data |-> data]

\* The entries below the root: the template files, an image next to the
\* template of a, an image in the global assets
Entries(data) ==
  { << << >>, Directory >>,
    << B(<< "/", "a" >>), Directory >>,
    << B(<< "/", "a", "/", "e", "m", "a", "i", "l", ".", "h", "t", "m", "l" >>), File(data) >>,
    << B(<< "/", "a", "/", "l", ".", "p", "n", "g" >>), File(<< 137 >>) >>,
    << B(<< "/", "b" >>), Directory >>,
    << B(<< "/", "b", "/", "c" >>), Directory >>,
    << B(<< "/", "b", "/", "c", "/", "e", "m", "a", "i", "l", ".", "h", "t", "m", "l" >>), File(data) >>,
    << B(<< "/", "e", "m", "a", "i", "l", ".", "h", "t", "m", "l" >>), File(data) >>,
    << B(<< "/", "a", "s", "s", "e", "t", "s" >>), Directory >>,
    << B(<< "/", "a", "s", "s", "e", "t", "s", "/", "g", ".", "p", "n", "g" >>), File(<< 137 >>) >> }

\* The filesystem with these entries below root
Tree(root, data) ==
  [p \in { (IF root = << ch("/") >> /\ e[1] # << >> THEN << >> ELSE root) \o e[1] :
             e \in Entries(data) } |->
      (CHOOSE e \in Entries(data) :
          p = (IF root = << ch("/") >> /\ e[1] # << >> THEN << >> ELSE root) \o e[1])[2]]

(***************************************************************************)
(* processTemplateContent, step by step                                    *)
(***************************************************************************)

InitRender ==
  /\ baseDir = B(<< "/", "b" >>)
  /\ reqPath \in RenderPaths
  /\ body \in Bodies
  /\ files = Tree(baseDir, body)
  /\ templateVars = templateVarsMap
  /\ content = body
  /\ baseURL = << >>
  /\ buf = << >>
  /\ remaining = {}
  /\ out = NotReturned
  /\ probes = {}
  /\ renders = 0
  /\ earlier = {}
  /\ pc = "render"
  /\ PathIdle
  /\ HttpIdle
  /\ ConcurrentIdle
  /\ CampaignsIdle

\* handler.go 879-909: the BaseURL of this render and the template data
ComputeBaseURL ==
  /\ pc = "render"
  /\ baseURL' = computeBaseURL(reqPath)
  /\ pc' = "parse"
  /\ UNCHANGED << baseDir, reqPath, files, probes, templateVars, body, content, buf,
                  remaining, out, renders, earlier, notRender >>

\* handler.go 912-913: the body is parsed
ParseTemplate ==
  /\ pc = "parse"
  /\ pc' = IF Parse(content).err THEN "fallback" ELSE "execute"
  /\ UNCHANGED << baseDir, reqPath, files, probes, templateVars, body, content, baseURL,
                  buf, remaining, out, renders, earlier, notRender >>

\* ExecuteTemplate as a bug would have it: what a failed execution has
\* written is kept as the content.
ExecuteTemplate_KeepsPartial ==
  /\ pc = "execute"
  /\ \E run \in { Execute(Parse(content).nodes, templateData(templateVars, baseURL)) } :
         /\ buf' = run.out
         /\ content' = run.out
         /\ pc' = IF run.err THEN "fallback" ELSE "assets"
  /\ UNCHANGED << baseDir, reqPath, files, probes, templateVars, body, baseURL,
                  remaining, out, renders, earlier, notRender >>

\* handler.go 922-933: the template is executed into the buffer; the buffer
\* becomes the content when the execution succeeds
ExecuteTemplate ==
  /\ pc = "execute"
  /\ \E run \in { Execute(Parse(content).nodes, templateData(templateVars, baseURL)) } :
         /\ buf' = run.out
         /\ content' = IF run.err THEN content ELSE run.out
         /\ pc' = IF run.err THEN "fallback" ELSE "assets"
  /\ UNCHANGED << baseDir, reqPath, files, probes, templateVars, body, baseURL,
                  remaining, out, renders, earlier, notRender >>

\* handler.go 915 and 926: the fallback replaces {{.BaseURL}} first
FallbackBaseURL ==
  /\ pc = "fallback"
  /\ content' = Replace(content, placeholder(BaseURLName), baseURL)
  /\ remaining' = DOMAIN templateVars
  /\ pc' = "loop"
  /\ UNCHANGED << baseDir, reqPath, files, probes, templateVars, body, baseURL, buf,
                  out, renders, earlier, notRender >>

\* handler.go 916-918 and 927-929: one iteration of the loop over
\* templateVars that changes the content (see replacePlaceholders)
FallbackVariable ==
  /\ pc = "loop"
  /\ \E p \in remaining :
        /\ Contains(content, p)
        /\ \E replaced \in { Replace(content, p, templateVars[p]) } :
           \E formed \in { { q \in remaining \ {p} :
                               ~Contains(content, q) /\ Contains(replaced, q) } } :
               /\ content' = replaced
               /\ \E visited \in SUBSET formed :
                     remaining' = (remaining \ {p}) \ visited
  /\ UNCHANGED << baseDir, reqPath, pc, files, probes, templateVars, body, baseURL, buf,
                  out, renders, earlier, notRender >>

\* handler.go 916-918 and 927-929: the loop ends
FallbackLoopEnd ==
  /\ pc = "loop"
  /\ \A p \in remaining : ~Contains(content, p)
  /\ remaining' = {}
  /\ pc' = "assets"
  /\ UNCHANGED << baseDir, reqPath, files, probes, templateVars, body, content, baseURL,
                  buf, out, renders, earlier, notRender >>

\* handler.go 919, 930 and 935: processAssetPaths, and the return
AssetPaths ==
  /\ pc = "assets"
  /\ \E r \in { assetPaths(content, reqPath, baseDir, files) } :
         /\ out' = r.text
         /\ probes' = probes \cup { r.probes[k] : k \in 1..Len(r.probes) }
  /\ pc' = "done"
  /\ UNCHANGED << baseDir, reqPath, files, templateVars, body, content, baseURL, buf,
                  remaining, renders, earlier, notRender >>

\* handler.go 732 and 836: the same file is rendered for a request with
\* another path
RenderAgain ==
  /\ pc = "done"
  /\ renders + 1 < MaxRenders
  /\ \E p \in RenderPaths \ {reqPath} : reqPath' = p
  /\ renders' = renders + 1
  /\ earlier' = earlier \cup {baseURL}
  /\ content' = body
  /\ baseURL' = << >>
  /\ buf' = << >>
  /\ out' = NotReturned
  /\ pc' = "render"
  /\ UNCHANGED << baseDir, files, probes, templateVars, body, remaining, notRender >>

\* A step of processTemplateContent
RenderStep ==
  \/ ComputeBaseURL
  \/ ParseTemplate
  \/ ExecuteTemplate
  \/ FallbackBaseURL
  \/ FallbackVariable
  \/ FallbackLoopEnd
  \/ AssetPaths

NextRender ==
  \/ ComputeBaseURL
  \/ ParseTemplate
  \/ ExecuteTemplate
  \/ FallbackBaseURL
  \/ FallbackVariable
  \/ FallbackLoopEnd
  \/ AssetPaths
  \/ RenderAgain

SpecRender == InitRender /\ [][NextRender]_vars


(***************************************************************************)
(* Properties of processTemplateContent                                    *)
(***************************************************************************)

\* Every body of the model is one the model of html/template covers.
BodiesModelled == Modelled(body)

\* The step-by-step run returns what the function returns.
RenderStepsAgree ==
  pc = "done" => out \in processTemplateContent(body, reqPath, baseDir, templateVars, files)

\* The execution of a body under this request path: [err, out]
Executed(text) == Execute(Parse(text).nodes, templateData(templateVars, computeBaseURL(reqPath)))

\* The body parses and executes.
Templated(text) == ~Parse(text).err /\ ~Executed(text).err

\* The text with each placeholder of the table that occurs in it, from
\* index i on, replaced by the value of the table, and {{.BaseURL}} by the
\* value given: one pass from left to right over the text as it is written
RECURSIVE SubstitutedFrom(_, _, _)
SubstitutedFrom(text, i, computed) ==
  With([hits \in { { p \in DOMAIN templateVarsMap : Index(text, i, p) # 0 } } |->
      IF hits = {} THEN From(text, i)
      ELSE With([at \in { Min({ Index(text, i, p) : p \in hits }) } |->
           With([p \in { CHOOSE q \in hits : Index(text, i, q) = at } |->
           With([value \in { IF p = placeholder(BaseURLName) THEN computed
                        ELSE templateVarsMap[p] } |->
               SubSeq(text, i, at - 1) \o value \o SubstitutedFrom(text, at + Len(p), computed)])])])])

Substituted(text, computed) == SubstitutedFrom(text, 1, computed)

\* The replacements of the text join pieces of it to a placeholder that is
\* not written in it
Spliced(text) ==
  \E p \in DOMAIN templateVarsMap : Contains(Substituted(text, << >>), p)

\* What processTemplateContent returns when it returns
C9_Document ==
  pc = "done" =>
    /\ out # NotReturned
    /\ out = processAssetPaths(content, reqPath, baseDir, files)
    /\ IF Templated(body) THEN content = Executed(body).out /\ buf = content
       ELSE /\ content \in fallback(templateVars, body, computeBaseURL(reqPath))
            /\ ~Spliced(body) => content = Substituted(body, computeBaseURL(reqPath))

\* The steps from here to the return, at most: the statements left, and in
\* the loop of the fallback the placeholders left
Measure ==
  [render |-> 6, parse |-> 5, execute |-> 4, fallback |-> 3, loop |-> 2, assets |-> 1,
   done |-> 0][pc] * (Cardinality(DOMAIN templateVars) + 1) + Cardinality(remaining)

\* C9: processTemplateContent never fails.  Every step of a render brings
\* its return nearer, and what it returns is a document: the executed
\* template when the body parses and executes, otherwise the body with
\* {{.BaseURL}} and the placeholders of the table replaced by their values
\* and nothing of what the failed execution wrote; in both cases asset path
\* rewriting is applied to that text.
C9_NeverFails ==
  /\ []C9_Document
  /\ [][pc # "done" => Measure' < Measure]_vars

\* An execution failed after it had written escaped output; the document
\* returned is the body with its placeholders replaced and holds nothing of
\* that output.
C9_Witness ==
  /\ pc = "done"
  /\ ~Parse(body).err
  /\ Executed(body).err
  /\ buf # << >>
  /\ ~Contains(out, buf)
  /\ Contains(out, templateVars[placeholder(B(<< "F", "r", "o", "m" >>))])

\* The BaseURL the request path stands for
ExpectedBaseURL ==
  CASE reqPath = B(<< "a", "/", "e", "m", "a", "i", "l", ".", "h", "t", "m", "l" >>) -> B(<< "/", "t", "e", "m", "p", "l", "a", "t", "e", "s", "/", "a" >>)
    [] reqPath = B(<< "b", "/", "c", "/", "e", "m", "a", "i", "l", ".", "h", "t", "m", "l" >>) -> B(<< "/", "t", "e", "m", "p", "l", "a", "t", "e", "s", "/", "b", "/", "c" >>)
    [] reqPath = B(<< "e", "m", "a", "i", "l", ".", "h", "t", "m", "l" >>) -> B(<< "/", "t", "e", "m", "p", "l", "a", "t", "e", "s" >>)

\* The body with the expected value written in place of each reference
Literal(text) == Replace(text, placeholder(BaseURLName), ExpectedBaseURL)

\* C10: BaseURL is computed per render from the request path.  A body that
\* references BaseURL renders, whatever renders came before, with
\* /templates/a, /templates/b/c or /templates in place of the reference: on
\* the templating path to what the body with that value written in it
\* executes to, on the fallback path to the body with that value and the
\* other placeholders' values in place of the placeholders; the static value
\* of the table does not appear in place of BaseURL.
C10_BaseURLPerRender ==
  (pc \in {"assets", "done"} /\ Contains(body, placeholder(BaseURLName))) =>
    /\ baseURL = ExpectedBaseURL
    /\ IF Templated(body) THEN content = Executed(Literal(body)).out
       ELSE content = Substituted(body, ExpectedBaseURL)

\* The same for the bodies whose replacements form no placeholder.
BaseURLPerRenderUnspliced ==
  pc \in {"assets", "done"} => (C10_BaseURLPerRender \/ Spliced(body))

\* The body rendered under a/email.html is rendered again under
\* b/c/email.html, on the fallback path, and its reference is replaced by
\* /templates/b/c.
RenderedAgain ==
  /\ pc = "done"
  /\ renders = 1
  /\ earlier = { B(<< "/", "t", "e", "m", "p", "l", "a", "t", "e", "s", "/", "a" >>) }
  /\ reqPath = B(<< "b", "/", "c", "/", "e", "m", "a", "i", "l", ".", "h", "t", "m", "l" >>)
  /\ body = placeholder(BaseURLName) \o leftDelim
  /\ content = B(<< "/", "t", "e", "m", "p", "l", "a", "t", "e", "s", "/", "b", "/", "c", "{", "{" >>)
  /\ out = content

\* The fallback has put the static value of the table where its
\* replacements formed {{.BaseURL}}.
StaticBaseURLLeaked ==
  /\ pc = "done"
  /\ Contains(body, placeholder(BaseURLName))
  /\ ~Contains(Substituted(body, computeBaseURL(reqPath)), staticBaseURL)
  /\ Contains(out, staticBaseURL)

\* What a fragment of text is rendered to on the templating path, written
\* out: text as it is, John, the value of From with its '<' and '>' as
\* entities, the tracking markup as the table has it
RenderedFragments ==
  { << B(<< "H", "i", " " >>), B(<< "H", "i", " " >>) >>,
    << placeholder(B(<< "F", "i", "r", "s", "t", "N", "a", "m", "e" >>)), B(<< "J", "o", "h", "n" >>) >>,
    << placeholder(B(<< "F", "r", "o", "m" >>)),
       B(<< "S", "e", "c", "u", "r", "i", "t", "y", " ", "T", "e", "a", "m", " ", "&", "l", "t", ";", "s", "e", "c", "u", "r", "i", "t", "y", "@", "p", "h", "i", "s", "h", "i", "n", "g", ".", "t", "e", "s", "t", "&", "g", "t", ";" >>) >>,
    << placeholder(TrackerName),
       B(<< "<", "i", "m", "g", " ", "s", "r", "c", "=", "\"", "h", "t", "t", "p", "s", ":", "/", "/", "p", "h", "i", "s", "h", "i", "n", "g", ".", "t", "e", "s", "t", "/", "o", "p", "e", "n", "e", "d", "/", "u", "n", "i", "q", "u", "e", "-", "i", "d", "\"", " ", "a", "l", "t", "=", "\"", "\"", " ", "w", "i", "d", "t", "h", "=", "\"", "1", "\"", " ", "h", "e", "i", "g", "h", "t", "=", "\"", "1", "\"", " ", "b", "o", "r", "d", "e", "r", "=", "\"", "0", "\"", " ", "s", "t", "y", "l", "e", "=", "\"", "h", "e", "i", "g", "h", "t", ":", "1", "p", "x", " ", "!", "i", "m", "p", "o", "r", "t", "a", "n", "t", ";", "w", "i", "d", "t", "h", ":", "1", "p", "x", "\"", " ", "/", ">" >>) >> }

\* The bodies of at most two of these fragments and what they are rendered to
RenderedBodies ==
  { << f[1], f[2] >> : f \in RenderedFragments } \cup
  { << f[1] \o g[1], f[2] \o g[2] >> : f \in RenderedFragments, g \in RenderedFragments }

\* C11: on the templating path a reference to Tracker is replaced by the
\* tracking markup byte for byte, its <img> tag unescaped and its https src
\* untouched by asset path rewriting, and every other variable is inserted
\* HTML-escaped: John appears as it is, the '<' and '>' of From appear as
\* &lt; and &gt;.
C11_TrackerVerbatim ==
  \A e \in RenderedBodies :
      (pc = "done" /\ body = e[1]) =>
          /\ Templated(body)
          /\ content = e[2]
          /\ out = e[2]

\* A body with Tracker and From has been rendered: the markup is in the
\* document as the table has it, From is not.
C11_Witness ==
  /\ pc = "done"
  /\ body = placeholder(TrackerName) \o placeholder(B(<< "F", "r", "o", "m" >>))
  /\ Templated(body)
  /\ HasPrefix(out, templateVars[placeholder(TrackerName)])
  /\ HasSuffix(out, B(<< "&", "l", "t", ";", "s", "e", "c", "u", "r", "i", "t", "y", "@", "p", "h", "i", "s", "h", "i", "n", "g", ".", "t", "e", "s", "t", "&", "g", "t", ";" >>))
  /\ ~Contains(out, templateVars[placeholder(B(<< "F", "r", "o", "m" >>))])

\* The bodies of one of these fragments and an action that is not closed,
\* which are rendered on the fallback path, and the documents with the
\* values written as the templating path writes them
FallbackBodies ==
  { << f[1] \o leftDelim, f[2] \o leftDelim >> : f \in RenderedFragments }

\* C12: when templating fails and the placeholders are replaced literally,
\* the values are escaped as on the templating path: every variable other
\* than Tracker is inserted HTML-escaped (the '<' and '>' of From as &lt;
\* and &gt;) and Tracker is inserted as the table has it.
C12_FallbackEscaped ==
  \A e \in FallbackBodies :
      (pc = "done" /\ body = e[1]) =>
          /\ Parse(body).err
          /\ out = e[2]

\* The same for the variables whose value has no special character, and
\* for Tracker.
FallbackPlainValues ==
  \A e \in FallbackBodies :
      (pc = "done" /\ body = e[1] /\ body # placeholder(B(<< "F", "r", "o", "m" >>)) \o leftDelim) =>
          /\ Parse(body).err
          /\ out = e[2]

\* The fallback has inserted the value of From as markup.
FallbackRawFrom ==
  /\ pc = "done"
  /\ body = placeholder(B(<< "F", "r", "o", "m" >>)) \o leftDelim
  /\ Parse(body).err
  /\ out = templateVars[placeholder(B(<< "F", "r", "o", "m" >>))] \o leftDelim
  /\ Contains(out, << ch("<") >>)

(***************************************************************************)
(* processAssetPaths, step by step                                         *)
(***************************************************************************)

\* The passes of processAssetPaths over one document
MaxPasses == 2

\* The values of the attributes: bare relative names, paths below the
\* mount prefix, absolute URLs with a double slash in their path, a
\* scheme-relative URL, a data URI with a double slash in its payload, a
\* fragment, values with parent references, URIs that name no file
BareValues == { B(<< "x" >>), B(<< "a", "s", "s", "e", "t", "s", "/", "x" >>) }

MountValues ==
  { B(<< "/", "t", "e", "m", "p", "l", "a", "t", "e", "s", "/", "a", "/", "x" >>), B(<< "/", "t", "e", "m", "p", "l", "a", "t", "e", "s", "/", "a", "/", "a", "s", "s", "e", "t", "s", "/", "x" >>), B(<< "/", "t", "e", "m", "p", "l", "a", "t", "e", "s", "/", "b", "/", "c", "/", "x" >>), B(<< "/", "t", "e", "m", "p", "l", "a", "t", "e", "s", "/", "a", "s", "s", "e", "t", "s", "/", "x" >>),
    B(<< "/", "t", "e", "m", "p", "l", "a", "t", "e", "s", "/", "x" >>) }

AbsoluteValues == { B(<< "h", "t", "t", "p", ":", "/", "/", "h", "/", "/", "x" >>), B(<< "h", "t", "t", "p", "s", ":", "/", "/", "h", "/", "/", "x" >>) }

SchemeRelativeValue == B(<< "/", "/", "h", "/", "x" >>)

DataValue == B(<< "d", "a", "t", "a", ":", ",", "/", "/", "x" >>)

FragmentValue == B(<< "#", "x" >>)

ParentValues == { B(<< ".", ".", "/", ".", ".", "/", "x" >>), B(<< ".", ".", "/", ".", ".", "/", "t", "e", "m", "p", "l", "a", "t", "e", "s", "x" >>) }

MountParentValue == B(<< "/", "t", "e", "m", "p", "l", "a", "t", "e", "s", "/", ".", ".", "/", "x" >>)

NonFileValues == { B(<< "m", "a", "i", "l", "t", "o", ":", "u" >>) \o << 64 >> \o B(<< "h" >>), B(<< "t", "e", "l", ":", "+", "1" >>), B(<< "j", "a", "v", "a", "s", "c", "r", "i", "p", "t", ":", "v", "o", "i", "d", "(", "0", ")" >>) }

AssetValues ==
  BareValues \cup MountValues \cup AbsoluteValues
    \cup { SchemeRelativeValue, DataValue, FragmentValue }
    \cup ParentValues \cup { MountParentValue } \cup NonFileValues

\* An element with one attribute: <img src=...>, <a href=...>, <form action=...>
Element(word, quote, value) ==
  ( CASE word = srcWord -> B(<< "<", "i", "m", "g", " " >>)
      [] word = hrefWord -> B(<< "<", "a", " " >>)
      [] word = actionWord -> B(<< "<", "f", "o", "r", "m", " " >>) )
    \o word \o << ch("="), quote >> \o value \o << quote, ch(">") >>

Elements ==
  { Element(w, q, v) : w \in {srcWord, hrefWord, actionWord}, q \in quotes, v \in AssetValues }

\* A script with a line comment, and a script with a string that holds the
\* text of an attribute
CommentScript == B(<< "<", "s", "c", "r", "i", "p", "t", ">", "/", "/", " ", "x" >>) \o << 10 >> \o B(<< "<", "/", "s", "c", "r", "i", "p", "t", ">" >>)

StringScript == B(<< "<", "s", "c", "r", "i", "p", "t", ">", "s", "=", "'", "s", "r", "c", "=", "\"", "a", "/", "/", "x", "\"", "'", "<", "/", "s", "c", "r", "i", "p", "t", ">" >>)

\* Documents with two elements: an absolute URL next to a bare name, and a
\* form next to an image
PairedElements ==
  { Element(hrefWord, ch("\""), B(<< "h", "t", "t", "p", "s", ":", "/", "/", "h", "/", "/", "x" >>)) \o Element(srcWord, ch("'"), B(<< "x" >>)),
    Element(actionWord, ch("\""), B(<< "x" >>)) \o Element(srcWord, ch("\""), B(<< "x" >>)) }

\* The documents of the model
AssetDocuments == Elements \cup PairedElements \cup { CommentScript, StringScript }

\* The files that are there or not: the asset next to the template of a, of
\* b/c and of the root, and the asset of the same name in the global pool
LocalFiles == { B(<< "/", "a", "/", "x" >>), B(<< "/", "b", "/", "c", "/", "x" >>), B(<< "/", "x" >>) }

GlobalFile == B(<< "/", "a", "s", "s", "e", "t", "s", "/", "x" >>)

\* The filesystem below root with the directories, the templates and these
\* files
AssetEntries(present) ==
  { << d, Directory >> : d \in { << >>, B(<< "/", "a" >>), B(<< "/", "b" >>), B(<< "/", "b", "/", "c" >>), B(<< "/", "a", "s", "s", "e", "t", "s" >>) } }
    \cup { << root \o B(<< "/", "e", "m", "a", "i", "l", ".", "h", "t", "m", "l" >>), File(<< >>) >> : root \in { << >>, B(<< "/", "a" >>), B(<< "/", "b", "/", "c" >>) } }
    \cup { << f, File(<< 137 >>) >> : f \in present }

AssetTree(root, present) ==
  [p \in { root \o e[1] : e \in AssetEntries(present) } |->
      (CHOOSE e \in AssetEntries(present) : p = root \o e[1])[2]]

InitAssets ==
  /\ baseDir = B(<< "/", "b" >>)
  /\ reqPath \in RenderPaths
  /\ body \in AssetDocuments
  /\ \E present \in SUBSET (LocalFiles \cup { GlobalFile }) :
        files = AssetTree(baseDir, present)
  /\ templateVars = templateVarsMap
  /\ content = body
  /\ baseURL = << >>
  /\ buf = << >>
  /\ remaining = {}
  /\ out = NotReturned
  /\ probes = {}
  /\ renders = 0
  /\ earlier = {}
  /\ pc = "slashes"
  /\ PathIdle
  /\ HttpIdle
  /\ ConcurrentIdle
  /\ CampaignsIdle

\* handler.go 941-942: src="// and href="// lose a slash
ReplaceQuotedSlashes ==
  /\ pc = "slashes"
  /\ content' = Replace(Replace(content, srcWord \o B(<< "=", "\"", "/", "/" >>), srcWord \o B(<< "=", "\"", "/" >>)),
                        hrefWord \o B(<< "=", "\"", "/", "/" >>), hrefWord \o B(<< "=", "\"", "/" >>))
  /\ pc' = "collapse"
  /\ UNCHANGED << baseDir, reqPath, files, probes, templateVars, body, baseURL, buf,
                  remaining, out, renders, earlier, notRender >>

\* handler.go 947-954: the first expression
CollapseAttributes ==
  /\ pc = "collapse"
  /\ content' = collapseAttributes(content, 1)
  /\ pc' = "rewrite"
  /\ UNCHANGED << baseDir, reqPath, files, probes, templateVars, body, baseURL, buf,
                  remaining, out, renders, earlier, notRender >>

\* handler.go 957-1042: the second expression, and the return
RewriteReferences ==
  /\ pc = "rewrite"
  /\ \E r \in { rewriteReferences(content, 1, reqPath, baseDir, files) } :
         /\ content' = r.text
         /\ out' = r.text
         /\ probes' = probes \cup { r.probes[k] : k \in 1..Len(r.probes) }
  /\ pc' = "rewritten"
  /\ UNCHANGED << baseDir, reqPath, files, templateVars, body, baseURL, buf,
                  remaining, renders, earlier, notRender >>

\* processAssetPaths is called with the document it returned, for the same
\* request path and on the same filesystem
ProcessAgain ==
  /\ pc = "rewritten"
  /\ renders + 1 < MaxPasses
  /\ renders' = renders + 1
  /\ earlier' = earlier \cup { out }
  /\ out' = NotReturned
  /\ pc' = "slashes"
  /\ UNCHANGED << baseDir, reqPath, files, probes, templateVars, body, content, baseURL,
                  buf, remaining, notRender >>

NextAssets ==
  \/ ReplaceQuotedSlashes
  \/ CollapseAttributes
  \/ RewriteReferences
  \/ ProcessAgain

SpecAssets == InitAssets /\ [][NextAssets]_vars

(***************************************************************************)
(* Properties of processAssetPaths                                         *)
(***************************************************************************)

\* The first pass has returned
Rewritten == pc = "rewritten" /\ renders = 0

\* The step-by-step run returns what the function returns.
AssetStepsAgree ==
  Rewritten => out = processAssetPaths(body, reqPath, baseDir, files)

\* The directory of the requesting template as the public paths write it,
\* and the asset next to the template
PublicDir ==
  CASE reqPath = B(<< "a", "/", "e", "m", "a", "i", "l", ".", "h", "t", "m", "l" >>) -> B(<< "/", "t", "e", "m", "p", "l", "a", "t", "e", "s", "/", "a" >>)
    [] reqPath = B(<< "b", "/", "c", "/", "e", "m", "a", "i", "l", ".", "h", "t", "m", "l" >>) -> B(<< "/", "t", "e", "m", "p", "l", "a", "t", "e", "s", "/", "b", "/", "c" >>)
    [] reqPath = B(<< "e", "m", "a", "i", "l", ".", "h", "t", "m", "l" >>) -> B(<< "/", "t", "e", "m", "p", "l", "a", "t", "e", "s" >>)

LocalFile ==
  CASE reqPath = B(<< "a", "/", "e", "m", "a", "i", "l", ".", "h", "t", "m", "l" >>) -> B(<< "/", "a", "/", "x" >>)
    [] reqPath = B(<< "b", "/", "c", "/", "e", "m", "a", "i", "l", ".", "h", "t", "m", "l" >>) -> B(<< "/", "b", "/", "c", "/", "x" >>)
    [] reqPath = B(<< "e", "m", "a", "i", "l", ".", "h", "t", "m", "l" >>) -> B(<< "/", "x" >>)

\* The asset is next to the requesting template; it is in the global pool
LocalThere == baseDir \o LocalFile \in DOMAIN files

GlobalThere == baseDir \o GlobalFile \in DOMAIN files

\* C13: a bare relative src or href value v of a template in directory D is
\* rewritten by a strict priority: to /templates/D/v when root/D/v exists,
\* also when root/assets/v exists; otherwise to /templates/assets/v when
\* root/assets/v exists; otherwise to /templates/D/v.  The raw relative
\* value is never left in the document.
C13_LocalThenGlobal ==
  \A w \in {srcWord, hrefWord}, q \in quotes :
      /\ (Rewritten /\ body = Element(w, q, B(<< "x" >>))) =>
            out = Element(w, ch("\""),
                          IF LocalThere THEN PublicDir \o B(<< "/", "x" >>)
                          ELSE IF GlobalThere THEN B(<< "/", "t", "e", "m", "p", "l", "a", "t", "e", "s", "/", "a", "s", "s", "e", "t", "s", "/", "x" >>)
                          ELSE PublicDir \o B(<< "/", "x" >>))
      /\ (Rewritten /\ body = Element(w, q, B(<< "a", "s", "s", "e", "t", "s", "/", "x" >>))) =>
            out = Element(w, ch("\""), PublicDir \o B(<< "/", "a", "s", "s", "e", "t", "s", "/", "x" >>))

\* The asset is next to the template of b/c and in the global pool; the
\* reference is rewritten to the one next to the template.
C13_Witness ==
  /\ Rewritten
  /\ reqPath = B(<< "b", "/", "c", "/", "e", "m", "a", "i", "l", ".", "h", "t", "m", "l" >>)
  /\ LocalThere
  /\ GlobalThere
  /\ body = Element(hrefWord, ch("'"), B(<< "x" >>))
  /\ out = B(<< "<", "a", " ", "h", "r", "e", "f", "=", "\"", "/", "t", "e", "m", "p", "l", "a", "t", "e", "s", "/", "b", "/", "c", "/", "x", "\"", ">" >>)
  /\ probes = { B(<< "/", "b", "/", "b", "/", "c", "/", "x" >>) }

\* The file a value below the mount prefix names
MountedFile(value) == baseDir \o SubSeq(value, Len(templatesMount) + 1, Len(value))

\* The values below the directory of the requesting template, with D/
\* written in them; the directory of a template of the root is written "."
OwnValues ==
  CASE reqPath = B(<< "a", "/", "e", "m", "a", "i", "l", ".", "h", "t", "m", "l" >>) -> { B(<< "/", "t", "e", "m", "p", "l", "a", "t", "e", "s", "/", "a", "/", "x" >>), B(<< "/", "t", "e", "m", "p", "l", "a", "t", "e", "s", "/", "a", "/", "a", "s", "s", "e", "t", "s", "/", "x" >>) }
    [] reqPath = B(<< "b", "/", "c", "/", "e", "m", "a", "i", "l", ".", "h", "t", "m", "l" >>) -> { B(<< "/", "t", "e", "m", "p", "l", "a", "t", "e", "s", "/", "b", "/", "c", "/", "x" >>) }
    [] reqPath = B(<< "e", "m", "a", "i", "l", ".", "h", "t", "m", "l" >>) -> {}

MountedFileKept ==
  /\ Rewritten
  /\ reqPath = B(<< "a", "/", "e", "m", "a", "i", "l", ".", "h", "t", "m", "l" >>)
  /\ LocalThere
  /\ GlobalThere
  /\ body = Element(srcWord, ch("'"), B(<< "/", "t", "e", "m", "p", "l", "a", "t", "e", "s", "/", "a", "/", "x" >>))
  /\ out = body

\* C15: asset rewriting is idempotent.  For every document, request path
\* and filesystem, processAssetPaths applied to the document it returned,
\* on the same filesystem, returns that document again, also when a
\* reference was found neither next to the template nor in the global pool
\* on the first pass (a relative value like assets/x).
C15_Idempotent ==
  (pc = "rewritten" /\ renders = 1) => earlier = { out }

\* The relative value assets/x of a template in a was found nowhere and
\* written as /templates/a/assets/x; the second pass strips a/ and assets/
\* from it, finds x in the global pool and writes /templates/assets/x.
SecondPassRewrites ==
  /\ pc = "rewritten"
  /\ renders = 1
  /\ reqPath = B(<< "a", "/", "e", "m", "a", "i", "l", ".", "h", "t", "m", "l" >>)
  /\ GlobalThere
  /\ body = Element(srcWord, ch("\""), B(<< "a", "s", "s", "e", "t", "s", "/", "x" >>))
  /\ earlier = { B(<< "<", "i", "m", "g", " ", "s", "r", "c", "=", "\"", "/", "t", "e", "m", "p", "l", "a", "t", "e", "s", "/", "a", "/", "a", "s", "s", "e", "t", "s", "/", "x", "\"", ">" >>) }
  /\ out = B(<< "<", "i", "m", "g", " ", "s", "r", "c", "=", "\"", "/", "t", "e", "m", "p", "l", "a", "t", "e", "s", "/", "a", "s", "s", "e", "t", "s", "/", "x", "\"", ">" >>)

\* The documents whose first pass writes no value below the template's own
\* directory for a file that is not there are returned again by the second
\* pass.
IdempotentWhenFound ==
  (pc = "rewritten" /\ renders = 1) =>
     \/ earlier = { out }
     \/ \E w \in {srcWord, hrefWord}, v \in OwnValues \cup { PublicDir \o B(<< "/" >>) \o b : b \in BareValues } :
           /\ \E doc \in earlier : Contains(doc, attribute(w, v))
           /\ MountedFile(v) \notin DOMAIN files
           /\ GlobalThere

\* C16: a src, href or action value that starts with http:// or https:// is
\* returned byte for byte: no step of processAssetPaths collapses a slash
\* in it, puts a prefix before it or changes its quotes, on the first pass
\* and on the second, alone in the document and next to a reference that is
\* rewritten.
C16_AbsoluteUnchanged ==
  /\ \A w \in {srcWord, hrefWord, actionWord}, q \in quotes, v \in AbsoluteValues :
        body = Element(w, q, v) => content = body /\ out \in { NotReturned, body }
  /\ \A d \in PairedElements, v \in AbsoluteValues :
        (body = d /\ HasPrefix(d, Element(hrefWord, ch("\""), v))) =>
            /\ HasPrefix(content, Element(hrefWord, ch("\""), v))
            /\ pc = "rewritten" => HasPrefix(out, Element(hrefWord, ch("\""), v))

\* An https URL whose path has a double slash stands next to an image; the
\* image has been rewritten and the URL is as it was.
C16_Witness ==
  /\ Rewritten
  /\ reqPath = B(<< "a", "/", "e", "m", "a", "i", "l", ".", "h", "t", "m", "l" >>)
  /\ body = B(<< "<", "a", " ", "h", "r", "e", "f", "=", "\"", "h", "t", "t", "p", "s", ":", "/", "/", "h", "/", "/", "x", "\"", ">", "<", "i", "m", "g", " ", "s", "r", "c", "=", "'", "x", "'", ">" >>)
  /\ out = B(<< "<", "a", " ", "h", "r", "e", "f", "=", "\"", "h", "t", "t", "p", "s", ":", "/", "/", "h", "/", "/", "x", "\"", ">", "<", "i", "m", "g", " ", "s", "r", "c", "=", "\"", "/", "t", "e", "m", "p", "l", "a", "t", "e", "s", "/", "a", "/", "x", "\"", ">" >>)

\* A single-quoted action with an http URL has been through both passes
\* and is as it was.
AbsoluteActionKept ==
  /\ pc = "rewritten"
  /\ renders = 1
  /\ body = B(<< "<", "f", "o", "r", "m", " ", "a", "c", "t", "i", "o", "n", "=", "'", "h", "t", "t", "p", ":", "/", "/", "h", "/", "/", "x", "'", ">" >>)
  /\ out = body

\* C17: attribute values that are scheme-relative (//...), data: URIs (also
\* with // in the payload) and fragments (#...) are excluded from asset
\* rewriting: each such attribute is returned unchanged.
C17_ExcludedUnchanged ==
  \A w \in {srcWord, hrefWord, actionWord}, q \in quotes,
     v \in { SchemeRelativeValue, DataValue, FragmentValue } :
      (Rewritten /\ body = Element(w, q, v)) => out = body

\* Fragments are returned unchanged.
FragmentsUnchanged ==
  \A w \in {srcWord, hrefWord, actionWord}, q \in quotes :
      (Rewritten /\ body = Element(w, q, FragmentValue)) => out = body

\* The scheme-relative URL has lost a slash and is rewritten as a path of
\* the template; the data URI has lost a slash of its payload.
SchemeRelativeRewritten ==
  \/ /\ Rewritten
     /\ reqPath = B(<< "a", "/", "e", "m", "a", "i", "l", ".", "h", "t", "m", "l" >>)
     /\ body = B(<< "<", "i", "m", "g", " ", "s", "r", "c", "=", "\"", "/", "/", "h", "/", "x", "\"", ">" >>)
     /\ out = B(<< "<", "i", "m", "g", " ", "s", "r", "c", "=", "\"", "/", "t", "e", "m", "p", "l", "a", "t", "e", "s", "/", "a", "/", "h", "/", "x", "\"", ">" >>)
  \/ /\ Rewritten
     /\ body = B(<< "<", "i", "m", "g", " ", "s", "r", "c", "=", "\"", "d", "a", "t", "a", ":", ",", "/", "/", "x", "\"", ">" >>)
     /\ out = B(<< "<", "i", "m", "g", " ", "s", "r", "c", "=", "\"", "d", "a", "t", "a", ":", ",", "/", "x", "\"", ">" >>)

\* C18: slash collapsing and path rewriting are confined to the values of
\* the src, href and action attributes of the markup: every character of a
\* script body, a line comment and a string literal that holds text like
\* src="a//x" included, is in the output as in the input.
C18_ScriptUntouched ==
  (Rewritten /\ body \in { CommentScript, StringScript }) => out = body

\* The line comment is returned as it is.
CommentUntouched ==
  (Rewritten /\ body = CommentScript) => out = body

\* The string literal of the script has been rewritten like an attribute of
\* the markup.
ScriptStringRewritten ==
  /\ Rewritten
  /\ reqPath = B(<< "a", "/", "e", "m", "a", "i", "l", ".", "h", "t", "m", "l" >>)
  /\ body = StringScript
  /\ out = B(<< "<", "s", "c", "r", "i", "p", "t", ">", "s", "=", "'", "s", "r", "c", "=", "\"", "/", "t", "e", "m", "p", "l", "a", "t", "e", "s", "/", "a", "/", "a", "/", "x", "\"", "'", "<", "/", "s", "c", "r", "i", "p", "t", ">" >>)

\* C19: an action attribute with a bare relative value is treated like src
\* and href: it is rewritten by the local, global, default resolution to a
\* public path below /templates.
C19_ActionRewritten ==
  \A q \in quotes :
      (Rewritten /\ body = Element(actionWord, q, B(<< "x" >>))) =>
          out = Element(actionWord, ch("\""),
                        IF LocalThere THEN PublicDir \o B(<< "/", "x" >>)
                        ELSE IF GlobalThere THEN B(<< "/", "t", "e", "m", "p", "l", "a", "t", "e", "s", "/", "a", "s", "s", "e", "t", "s", "/", "x" >>)
                        ELSE PublicDir \o B(<< "/", "x" >>))

\* The action is returned with its relative value, next to an image whose
\* value was rewritten.
ActionLeftRelative ==
  /\ Rewritten
  /\ reqPath = B(<< "a", "/", "e", "m", "a", "i", "l", ".", "h", "t", "m", "l" >>)
  /\ body = B(<< "<", "f", "o", "r", "m", " ", "a", "c", "t", "i", "o", "n", "=", "\"", "x", "\"", ">", "<", "i", "m", "g", " ", "s", "r", "c", "=", "\"", "x", "\"", ">" >>)
  /\ out = B(<< "<", "f", "o", "r", "m", " ", "a", "c", "t", "i", "o", "n", "=", "\"", "x", "\"", ">", "<", "i", "m", "g", " ", "s", "r", "c", "=", "\"", "/", "t", "e", "m", "p", "l", "a", "t", "e", "s", "/", "a", "/", "x", "\"", ">" >>)

\* The root or a path below it
UnderRoot(p) == p = baseDir \/ HasPrefix(p, baseDir \o << Separator >>)

\* C27: asset probing during a render stays inside the sandbox.  For every
\* document and every src or href value in it, including values with ".."
\* segments and values that start with /templates/../, every existence
\* probe of processAssetPaths targets root or a path under root.
C27_ProbesUnderRoot == \A p \in probes : UnderRoot(p)

\* The probes of a value that climbs out of the template directory, and of
\* a mounted value that climbs out of the mount
ProbeAboveRoot ==
  /\ Rewritten
  /\ reqPath = B(<< "a", "/", "e", "m", "a", "i", "l", ".", "h", "t", "m", "l" >>)
  /\ body = Element(srcWord, ch("\""), B(<< ".", ".", "/", ".", ".", "/", "x" >>))
  /\ B(<< "/", "x" >>) \in probes

MountedProbeAboveRoot ==
  /\ Rewritten
  /\ body = Element(hrefWord, ch("\""), MountParentValue)
  /\ probes = { B(<< "/", "x" >>) }

\* Values without a parent reference are probed under root only.
PlainProbesUnderRoot ==
  (\E w \in {srcWord, hrefWord, actionWord}, q \in quotes,
      v \in AssetValues \ (ParentValues \cup { MountParentValue }) :
        body = Element(w, q, v))
    => \A p \in probes : UnderRoot(p)

\* The value of the one attribute of the document returned for Element(w, q, v)
WrittenValue(w, q) ==
  SubSeq(out, Len(Element(w, q, << >>)) - 1, Len(out) - 2)

\* The values of the third branch of the rewrite: not skipped, not below
\* the mount prefix
RelativeValues == BareValues \cup ParentValues \cup NonFileValues

\* C28: every value that processAssetPaths writes for a relative src or
\* href reference (not skipped, not already below the mount prefix) lies
\* under the public mount prefix: it starts with /templates/, also when the
\* value has ".." segments, and never names a sibling location that only
\* shares the text /templates.
C28_WrittenUnderMount ==
  \A w \in {srcWord, hrefWord}, q \in quotes, v \in RelativeValues :
      Rewritten /\ body = Element(w, q, v) =>
          /\ out = Element(w, ch("\""), WrittenValue(w, q))
          /\ HasPrefix(WrittenValue(w, q), templatesMount \o << ch("/") >>)

\* A value that climbs to a sibling of the mount is written as that sibling.
SiblingWritten ==
  /\ Rewritten
  /\ reqPath = B(<< "a", "/", "e", "m", "a", "i", "l", ".", "h", "t", "m", "l" >>)
  /\ body = Element(srcWord, ch("'"), B(<< ".", ".", "/", ".", ".", "/", "t", "e", "m", "p", "l", "a", "t", "e", "s", "x" >>))
  /\ out = Element(srcWord, ch("\""), B(<< "/", "t", "e", "m", "p", "l", "a", "t", "e", "s", "x" >>))

\* A value that climbs to a location that does not share the text of the
\* mount is written below the mount.
ClimbingValueRemounted ==
  \A w \in {srcWord, hrefWord}, q \in quotes :
      Rewritten /\ body = Element(w, q, B(<< ".", ".", "/", ".", ".", "/", "x" >>)) /\ ~GlobalThere /\ ~LocalThere =>
          out = Element(w, ch("\""), B(<< "/", "t", "e", "m", "p", "l", "a", "t", "e", "s", "/", "x" >>))

\* C29: an href whose value is a URI that names no file (mailto:, tel:,
\* javascript:) is not treated as an asset reference: it is returned
\* unchanged, without a /templates/ path before it.
C29_NonFileUnchanged ==
  \A v \in NonFileValues :
      Rewritten /\ body = Element(hrefWord, ch("\""), v) => out = body

\* The address of a mailto: link is written below the template directory.
MailtoPrefixed ==
  /\ Rewritten
  /\ reqPath = B(<< "a", "/", "e", "m", "a", "i", "l", ".", "h", "t", "m", "l" >>)
  /\ body = Element(hrefWord, ch("\""), B(<< "m", "a", "i", "l", "t", "o", ":", "u" >>) \o << 64 >> \o B(<< "h" >>))
  /\ out = Element(hrefWord, ch("\""), B(<< "/", "t", "e", "m", "p", "l", "a", "t", "e", "s", "/", "a", "/", "m", "a", "i", "l", "t", "o", ":", "u" >>) \o << 64 >> \o B(<< "h" >>))

(***************************************************************************)
(* processTemplateContent, several calls at a time                         *)
(***************************************************************************)

\* The calls in work at the same time
MaxCalls == 2

Calls == 1..MaxCalls

\* A call of processTemplateContent(content, reqPath, baseDir) at its entry
NewCall(text, path) ==
  [body |-> text, reqPath |-> path, pc |-> "render", content |-> text, baseURL |-> << >>,
   buf |-> << >>, remaining |-> {}, out |-> NotReturned]

\* The handlers run in one goroutine per request: the calls share the
\* package variable templateVars and the filesystem, and each has its own
\* arguments and local variables
InitConcurrent ==
  /\ baseDir = B(<< "/", "b" >>)
  /\ files = Tree(baseDir, << >>)
  /\ calls \in [Calls -> { NewCall(text, path) : text \in MarkupFragments, path \in RenderPaths }]
  /\ reqPath = << >>
  /\ pc = "calls"
  /\ probes = {}
  /\ PathIdle
  /\ RenderIdle
  /\ HttpIdle
  /\ CampaignsIdle

\* What a step of a call leaves alone
notCall == << baseDir, reqPath, pc, files, pathVars, renderVars, httpVars, campaignVars >>

\* The call c goes on with these local variables
Proceed(c, next) == calls' = [calls EXCEPT ![c] = next]

\* handler.go 879-889 as a bug would have it: baseURL is a package variable,
\* and the assignment of one call is seen by all of them.
CallComputeBaseURL_PackageVariable(c) ==
  /\ calls[c].pc = "render"
  /\ calls' = [d \in Calls |->
                 [calls[d] EXCEPT !.baseURL = computeBaseURL(calls[c].reqPath),
                                  !.pc = IF d = c THEN "parse" ELSE @]]
  /\ UNCHANGED << probes, notCall >>

\* handler.go 879-909: the BaseURL of the call and its template data
CallComputeBaseURL(c) ==
  /\ calls[c].pc = "render"
  /\ Proceed(c, [calls[c] EXCEPT !.baseURL = computeBaseURL(calls[c].reqPath), !.pc = "parse"])
  /\ UNCHANGED << probes, notCall >>

\* handler.go 912-913
CallParseTemplate(c) ==
  /\ calls[c].pc = "parse"
  /\ Proceed(c, [calls[c] EXCEPT !.pc = IF Parse(calls[c].content).err THEN "fallback"
                                        ELSE "execute"])
  /\ UNCHANGED << probes, notCall >>

\* handler.go 922-933
CallExecuteTemplate(c) ==
  /\ calls[c].pc = "execute"
  /\ \E run \in { Execute(Parse(calls[c].content).nodes,
                          templateData(templateVars, calls[c].baseURL)) } :
        Proceed(c, [calls[c] EXCEPT !.buf = run.out,
                                    !.content = IF run.err THEN @ ELSE run.out,
                                    !.pc = IF run.err THEN "fallback" ELSE "assets"])
  /\ UNCHANGED << probes, notCall >>

\* handler.go 915 and 926
CallFallbackBaseURL(c) ==
  /\ calls[c].pc = "fallback"
  /\ Proceed(c, [calls[c] EXCEPT !.content = Replace(@, placeholder(BaseURLName), calls[c].baseURL),
                                 !.remaining = DOMAIN templateVars,
                                 !.pc = "loop"])
  /\ UNCHANGED << probes, notCall >>

\* handler.go 916-918 and 927-929: one iteration that changes the content
CallFallbackVariable(c) ==
  /\ calls[c].pc = "loop"
  /\ \E p \in calls[c].remaining :
        /\ Contains(calls[c].content, p)
        /\ \E replaced \in { Replace(calls[c].content, p, templateVars[p]) } :
           \E formed \in { { q \in calls[c].remaining \ {p} :
                               ~Contains(calls[c].content, q) /\ Contains(replaced, q) } } :
           \E visited \in SUBSET formed :
               Proceed(c, [calls[c] EXCEPT !.content = replaced,
                                           !.remaining = (@ \ {p}) \ visited])
  /\ UNCHANGED << probes, notCall >>

\* handler.go 916-918 and 927-929: the loop ends
CallFallbackLoopEnd(c) ==
  /\ calls[c].pc = "loop"
  /\ \A p \in calls[c].remaining : ~Contains(calls[c].content, p)
  /\ Proceed(c, [calls[c] EXCEPT !.remaining = {}, !.pc = "assets"])
  /\ UNCHANGED << probes, notCall >>

\* handler.go 919, 930 and 935: processAssetPaths, and the return
CallAssetPaths(c) ==
  /\ calls[c].pc = "assets"
  /\ \E r \in { assetPaths(calls[c].content, calls[c].reqPath, baseDir, files) } :
         /\ Proceed(c, [calls[c] EXCEPT !.out = r.text, !.pc = "done"])
         /\ probes' = probes \cup { r.probes[k] : k \in 1..Len(r.probes) }
  /\ UNCHANGED notCall

NextConcurrent ==
  \/ \E c \in Calls : CallComputeBaseURL(c)
  \/ \E c \in Calls : CallParseTemplate(c)
  \/ \E c \in Calls : CallExecuteTemplate(c)
  \/ \E c \in Calls : CallFallbackBaseURL(c)
  \/ \E c \in Calls : CallFallbackVariable(c)
  \/ \E c \in Calls : CallFallbackLoopEnd(c)
  \/ \E c \in Calls : CallAssetPaths(c)

SpecConcurrent == InitConcurrent /\ [][NextConcurrent]_vars

(***************************************************************************)
(* Properties of the calls side by side                                    *)
(***************************************************************************)

\* The documents a call returns when it runs alone
Alone(c) ==
  processTemplateContent(calls[c].body, calls[c].reqPath, baseDir, templateVarsMap,
                         Tree(baseDir, << >>))

\* C26: renders are independent under concurrency.  When two calls of
\* processTemplateContent with different request paths and bodies run
\* interleaved, each returns what it returns when it runs alone; no call
\* writes the shared variable table or the filesystem, and the BaseURL of
\* one request does not come into the output of another.
C26_CallsIndependent ==
  /\ templateVars = templateVarsMap
  /\ files = Tree(baseDir, << >>)
  /\ \A c \in DOMAIN calls :
        /\ calls[c].pc # "render" => calls[c].baseURL = computeBaseURL(calls[c].reqPath)
        /\ calls[c].pc = "done" =>
              /\ calls[c].out \in Alone(c)
              /\ \A d \in DOMAIN calls \ {c} :
                    (\A o \in Alone(c) : ~Contains(o, computeBaseURL(calls[d].reqPath)))
                       => ~Contains(calls[c].out, computeBaseURL(calls[d].reqPath))

\* The first call has returned its document while the second, of another
\* template and another body, is in its fallback loop with its own BaseURL.
C26_Witness ==
  /\ calls # << >>
  /\ calls[1].reqPath = B(<< "a", "/", "e", "m", "a", "i", "l", ".", "h", "t", "m", "l" >>)
  /\ calls[1].body = B(<< "<", "i", "m", "g", " ", "s", "r", "c", "=", "\"", "{", "{", ".", "B", "a", "s", "e", "U", "R", "L", "}", "}", "/", "l", ".", "p", "n", "g", "\"", ">" >>)
  /\ calls[1].pc = "done"
  /\ calls[1].out = B(<< "<", "i", "m", "g", " ", "s", "r", "c", "=", "\"", "/", "t", "e", "m", "p", "l", "a", "t", "e", "s", "/", "a", "/", "l", ".", "p", "n", "g", "\"", ">" >>)
  /\ calls[2].reqPath = B(<< "b", "/", "c", "/", "e", "m", "a", "i", "l", ".", "h", "t", "m", "l" >>)
  /\ calls[2].body = B(<< "{", "{", ".", "B", "a", "s", "e", "{", "{", ".", "A", "P", "I", "K", "e", "y", "}", "}", "U", "R", "L", "}", "}" >>)
  /\ calls[2].pc = "loop"
  /\ calls[2].baseURL = B(<< "/", "t", "e", "m", "p", "l", "a", "t", "e", "s", "/", "b", "/", "c" >>)

\* Both calls have returned, each with the BaseURL of its own template.
BothReturned ==
  /\ calls # << >>
  /\ calls[1].reqPath = B(<< "a", "/", "e", "m", "a", "i", "l", ".", "h", "t", "m", "l" >>)
  /\ calls[2].reqPath = B(<< "b", "/", "c", "/", "e", "m", "a", "i", "l", ".", "h", "t", "m", "l" >>)
  /\ calls[1].body = B(<< "<", "i", "m", "g", " ", "s", "r", "c", "=", "\"", "{", "{", ".", "B", "a", "s", "e", "U", "R", "L", "}", "}", "/", "l", ".", "p", "n", "g", "\"", ">" >>)
  /\ calls[2].body = B(<< "<", "i", "m", "g", " ", "s", "r", "c", "=", "\"", "{", "{", ".", "B", "a", "s", "e", "U", "R", "L", "}", "}", "/", "l", ".", "p", "n", "g", "\"", ">" >>)
  /\ calls[1].out = B(<< "<", "i", "m", "g", " ", "s", "r", "c", "=", "\"", "/", "t", "e", "m", "p", "l", "a", "t", "e", "s", "/", "a", "/", "l", ".", "p", "n", "g", "\"", ">" >>)
  /\ calls[2].out = B(<< "<", "i", "m", "g", " ", "s", "r", "c", "=", "\"", "/", "t", "e", "m", "p", "l", "a", "t", "e", "s", "/", "b", "/", "c", "/", "l", ".", "p", "n", "g", "\"", ">" >>)

(***************************************************************************)
(* validateCampaigns                                                       *)
(***************************************************************************)

\* filepath.Base of a path that does not end in a separator
Base(path) == From(path, LastIndex(path, Separator) + 1)

\* filepath.Rel(base, path) of a path at or below base
Rel(base, path) == IF path = base THEN << ch(".") >> ELSE TrimPrefix(path, base \o << Separator >>)

\* strings.Split(s, "/")
RECURSIVE Split(_)
Split(s) ==
  With([k \in { IndexAny(s, 1, { Separator }) } |->
      IF k > Len(s) THEN << s >>
      ELSE << SubSeq(s, 1, k - 1) >> \o Split(From(s, k + 1))])

\* filepath.Walk calls its function on p before q: the names of a
\* directory in lexical order, and a directory before what it holds
Before(p, q) ==
  \E i \in 1..Len(q) :
     /\ \A j \in 1..(i - 1) : j <= Len(p) /\ p[j] = q[j]
     /\ \/ i = Len(p) + 1
        \/ /\ i <= Len(p)
           /\ (IF p[i] = Separator THEN 0 ELSE p[i]) < (IF q[i] = Separator THEN 0 ELSE q[i])

\* The path filepath.Walk calls its function on next
nextPath == CHOOSE p \in unvisited : \A q \in unvisited \ {p} : Before(p, q)

\* part_001 513-525
containsHTMLFiles(fsys, dirPath) ==
  \E f \in DOMAIN fsys :
     /\ ~fsys[f].dir
     /\ f = dirPath \o << Separator >> \o Base(f)
     /\ HasSuffix(ToLower(Base(f)), B(<< ".", "h", "t", "m", "l" >>))

\* yaml.Unmarshal into a struct with the one field name: the value of the
\* top-level key, "" when there is none (nested keys are indented)
yamlName(data) ==
  With([key \in { B(<< "n", "a", "m", "e", ":", " " >>) } |->
  With([k \in { IF HasPrefix(data, key) THEN 1
                ELSE IF Index(data, 1, << 10 >> \o key) = 0 THEN 0
                ELSE Index(data, 1, << 10 >> \o key) + 1 } |->
      IF k = 0 THEN << >>
      ELSE SubSeq(data, k + Len(key), IndexAny(data, k, { 10 }) - 1)])])

\* part_001 370-394: the CampaignInfo of a campaign directory
campaignInfo(fsys, root, path) ==
  With([yamlPath \in { Join(path, B(<< "d", "a", "t", "a", ".", "y", "a", "m", "l" >>)) } |->
  With([named \in { IF yamlPath \in DOMAIN fsys /\ ~fsys[yamlPath].dir
                    THEN yamlName(fsys[yamlPath].data) ELSE << >> } |->
      [Path |-> Rel(root, path), Dir |-> Base(path),
       Name |-> IF named = << >> THEN Base(path) ELSE named]])])

\* part_001 343-346: the test that skips the assets directories
inAssets(path) == Contains(path, B(<< "A", "s", "s", "e", "t", "s" >>)) \/ Contains(path, B(<< "a", "s", "s", "e", "t", "s" >>))

\* part_001 348-355: the test that skips the private directories
inPrivate(root, path) == ToLower(Split(ToSlash(Rel(root, path)))[1]) = B(<< "p", "r", "i", "v", "a", "t", "e" >>)

\* part_001 415-439: the campaigns of one name are the emails and the
\* landing pages of one organisation
isEmailLandingOrg(paths) ==
  With([parents \in { { IF Len(Split(ToSlash(paths[i]))) >= 2
                        THEN ToLower(Split(ToSlash(paths[i]))[Len(Split(ToSlash(paths[i]))) - 1])
                        ELSE << >> : i \in 1..Len(paths) } } |->
      /\ parents \subseteq { B(<< "e", "m", "a", "i", "l", "s" >>), B(<< "l", "a", "n", "d", "i", "n", "g", " ", "p", "a", "g", "e", "s" >>), B(<< "p", "a", "g", "e", "s" >>) }
      /\ Cardinality(parents) > 1])

\* part_001 33-37
DuplicateError(name, paths) == [Type |-> "name", Value |-> name, Campaigns |-> paths]

NoDuplicate == [Type |-> "nil", Value |-> << >>, Campaigns |-> << >>]

\* The campaign directories of the model, each there or not, with an HTML
\* file in it and the data.yaml given: two of one folder name, one named
\* like them by its data.yaml, three of one name below Emails and Pages,
\* one below Private, one in the global assets, two whose folder name ends
\* in "assets", one with an email named like other campaigns
CampaignDirectories ==
  { << B(<< "/", "c", "/", "k" >>), << >> >>, << B(<< "/", "d", "/", "k" >>), << >> >>,
    << B(<< "/", "c", "/", "m" >>), B(<< "n", "a", "m", "e", ":", " ", "k" >>) \o << 10 >> >>,
    << B(<< "/", "E", "m", "a", "i", "l", "s", "/", "k" >>), << >> >>, << B(<< "/", "P", "a", "g", "e", "s", "/", "k" >>), << >> >>,
    << B(<< "/", "E", "m", "a", "i", "l", "s", "/", "j" >>), B(<< "n", "a", "m", "e", ":", " ", "k" >>) \o << 10 >> >>,
    << B(<< "/", "P", "r", "i", "v", "a", "t", "e", "/", "k" >>), << >> >>,
    << B(<< "/", "a", "s", "s", "e", "t", "s", "/", "k" >>), << >> >>,
    << B(<< "/", "c", "/", "m", "y", "a", "s", "s", "e", "t", "s" >>), << >> >>, << B(<< "/", "d", "/", "m", "y", "a", "s", "s", "e", "t", "s" >>), << >> >>,
    << B(<< "/", "e", "/", "n" >>), B(<< "e", "m", "a", "i", "l", "s", ":" >>) \o << 10 >> \o B(<< " ", " ", "-", " ", "n", "a", "m", "e", ":", " ", "k" >>) \o << 10 >> >> }

\* The entries below root of the filesystem with these campaign directories
CampaignEntries(present) ==
  { << << >>, Directory >> }
    \cup { << Dir(d[1]), Directory >> : d \in present }
    \cup { << d[1], Directory >> : d \in present }
    \cup { << d[1] \o B(<< "/", "i", ".", "h", "t", "m", "l" >>), File(<< >>) >> : d \in present }
    \cup { << d[1] \o B(<< "/", "d", "a", "t", "a", ".", "y", "a", "m", "l" >>), File(d[2]) >> : d \in { e \in present : e[2] # << >> } }

CampaignTree(root, present) ==
  [p \in { root \o e[1] : e \in CampaignEntries(present) } |->
      (CHOOSE e \in CampaignEntries(present) : p = root \o e[1])[2]]

\* part_001 327-333: validateCampaigns(baseDir) starts its walk
InitCampaigns ==
  /\ baseDir = B(<< "/", "b" >>)
  /\ \E present \in SUBSET CampaignDirectories : files = CampaignTree(baseDir, present)
  /\ unvisited = DOMAIN files
  /\ nameMap = << >>
  /\ result = NotValidatedYet
  /\ reqPath = << >>
  /\ pc = "walk"
  /\ probes = {}
  /\ PathIdle
  /\ RenderIdle
  /\ HttpIdle
  /\ ConcurrentIdle

notCampaigns == << baseDir, reqPath, files, probes, pathVars, renderVars, httpVars, concurrentVars >>

\* The walk goes on after path; with SkipDir it passes over what path holds
Walked(path, skipDir) ==
  unvisited' = { q \in unvisited \ {path} :
                   ~(skipDir /\ HasPrefix(q, path \o << Separator >>)) }

\* part_001 338-341: a file
WalkFile ==
  /\ pc = "walk" /\ unvisited # {}
  /\ ~files[nextPath].dir
  /\ Walked(nextPath, FALSE)
  /\ UNCHANGED << pc, nameMap, result, notCampaigns >>

\* part_001 343-346: a directory with "Assets" or "assets" in its path
SkipAssets ==
  /\ pc = "walk" /\ unvisited # {}
  /\ files[nextPath].dir
  /\ inAssets(nextPath)
  /\ Walked(nextPath, TRUE)
  /\ UNCHANGED << pc, nameMap, result, notCampaigns >>

\* part_001 348-355: a directory below a top-level private
SkipPrivate ==
  /\ pc = "walk" /\ unvisited # {}
  /\ files[nextPath].dir
  /\ ~inAssets(nextPath)
  /\ inPrivate(baseDir, nextPath)
  /\ Walked(nextPath, TRUE)
  /\ UNCHANGED << pc, nameMap, result, notCampaigns >>

\* part_001 357-364 and 405: a directory with no HTML file
WalkDirectory ==
  /\ pc = "walk" /\ unvisited # {}
  /\ files[nextPath].dir
  /\ ~inAssets(nextPath)
  /\ ~inPrivate(baseDir, nextPath)
  /\ ~containsHTMLFiles(files, nextPath)
  /\ Walked(nextPath, FALSE)
  /\ UNCHANGED << pc, nameMap, result, notCampaigns >>

\* part_001 364-405: a campaign directory
CollectCampaign ==
  /\ pc = "walk" /\ unvisited # {}
  /\ files[nextPath].dir
  /\ ~inAssets(nextPath)
  /\ ~inPrivate(baseDir, nextPath)
  /\ containsHTMLFiles(files, nextPath)
  /\ \E campaign \in { campaignInfo(files, baseDir, nextPath) } :
        nameMap' = [n \in DOMAIN nameMap \cup { campaign.Name } |->
                      IF n = campaign.Name
                        THEN (IF n \in DOMAIN nameMap THEN nameMap[n] ELSE << >>)
                               \o << campaign.Path >>
                      ELSE nameMap[n]]
  /\ Walked(nextPath, FALSE)
  /\ UNCHANGED << pc, result, notCampaigns >>

\* part_001 412-453: the loop over nameMap, in the order of the map, and
\* the return
CheckDuplicates ==
  /\ pc = "walk" /\ unvisited = {}
  /\ \E conflicts \in { { n \in DOMAIN nameMap :
                            Len(nameMap[n]) > 1 /\ ~isEmailLandingOrg(nameMap[n]) } } :
        IF conflicts = {} THEN result' = NoDuplicate
        ELSE \E name \in conflicts : result' = DuplicateError(name, nameMap[name])
  /\ pc' = "returned"
  /\ UNCHANGED << unvisited, nameMap, notCampaigns >>

NextCampaigns ==
  \/ WalkFile
  \/ SkipAssets
  \/ SkipPrivate
  \/ WalkDirectory
  \/ CollectCampaign
  \/ CheckDuplicates

SpecCampaigns == InitCampaigns /\ [][NextCampaigns]_vars

(***************************************************************************)
(* Properties of validateCampaigns                                         *)
(***************************************************************************)

\* The considered campaign directories: they hold an HTML file, they are
\* not below a top-level private, and they are not in an assets directory
Considered ==
  { p \in DOMAIN files :
      /\ files[p].dir
      /\ containsHTMLFiles(files, p)
      /\ ~inPrivate(baseDir, p)
      /\ \A i \in 1..Len(Split(Rel(baseDir, p))) :
            Split(Rel(baseDir, p))[i] \notin { B(<< "a", "s", "s", "e", "t", "s" >>), B(<< "A", "s", "s", "e", "t", "s" >>) } }

\* The considered directories of a name
Sharing(name) == { p \in Considered : campaignInfo(files, baseDir, p).Name = name }

\* Their parents are of different kinds among Emails, Landing Pages, Pages
DifferentKinds(ps) ==
  /\ \A p \in ps : ToLower(Base(Dir(p))) \in { B(<< "e", "m", "a", "i", "l", "s" >>), B(<< "l", "a", "n", "d", "i", "n", "g", " ", "p", "a", "g", "e", "s" >>), B(<< "p", "a", "g", "e", "s" >>) }
  /\ Cardinality({ ToLower(Base(Dir(p))) : p \in ps }) > 1

\* The names two or more considered directories share with no such excuse
SharedNames ==
  { n \in { campaignInfo(files, baseDir, p).Name : p \in Considered } :
      Cardinality(Sharing(n)) > 1 /\ ~DifferentKinds(Sharing(n)) }

\* C21: validateCampaigns returns a DuplicateError of Type "name", with the
\* shared name as its Value, when two or more considered campaign
\* directories share a campaign name (the top-level name of data.yaml, or
\* the folder name); it returns nil otherwise.  Directories below a
\* top-level private and the global assets directories are not considered,
\* names of emails inside a campaign do not count, and a name shared below
\* parents of different kinds is allowed.
C21_DuplicateReported ==
  pc = "returned" =>
     IF SharedNames = {} THEN result = NoDuplicate
     ELSE result.Type = "name" /\ result.Value \in SharedNames

\* Two campaign directories of one name, whose folder name ends in
\* "assets", and no error
AssetsNamedPassedOver ==
  /\ pc = "returned"
  /\ { baseDir \o B(<< "/", "c", "/", "m", "y", "a", "s", "s", "e", "t", "s" >>), baseDir \o B(<< "/", "d", "/", "m", "y", "a", "s", "s", "e", "t", "s" >>) } \subseteq DOMAIN files
  /\ result = NoDuplicate

\* With no directory that has "assets" within a longer name, the error and
\* its absence are as stated.
ReportedButForAssets ==
  pc = "returned" /\ (\A p \in DOMAIN files : inAssets(p) => Contains(p, B(<< "/", "a", "s", "s", "e", "t", "s", "/" >>)) \/ HasSuffix(p, B(<< "/", "a", "s", "s", "e", "t", "s" >>)) )
      /\ ~Contains(baseDir, B(<< "a", "s", "s", "e", "t", "s" >>)) =>
     IF SharedNames = {} THEN result = NoDuplicate
     ELSE result.Type = "name" /\ result.Value \in SharedNames

\* Two directories of one folder name: the error names it and lists them in
\* the order of the walk.
FolderNameReported ==
  /\ pc = "returned"
  /\ DOMAIN nameMap = { B(<< "k" >>) }
  /\ result = DuplicateError(B(<< "k" >>), << B(<< "c", "/", "k" >>), B(<< "d", "/", "k" >>) >>)

\* A name of data.yaml is the name of the folder of another campaign.
YamlNameReported ==
  /\ pc = "returned"
  /\ result = DuplicateError(B(<< "k" >>), << B(<< "c", "/", "k" >>), B(<< "c", "/", "m" >>) >>)

\* One name below Emails and below Pages, another directory below Private,
\* an email of the name inside a campaign: no error.
OrganisationAllowed ==
  /\ pc = "returned"
  /\ { baseDir \o B(<< "/", "E", "m", "a", "i", "l", "s", "/", "k" >>), baseDir \o B(<< "/", "P", "a", "g", "e", "s", "/", "k" >>), baseDir \o B(<< "/", "P", "r", "i", "v", "a", "t", "e", "/", "k" >>),
       baseDir \o B(<< "/", "e", "/", "n" >>) } \subseteq DOMAIN files
  /\ result = NoDuplicate

\* Two directories below Emails share the name with one below Pages, and
\* no error is returned.
TwoOfOneKindAllowed ==
  /\ pc = "returned"
  /\ nameMap = [n \in { B(<< "k" >>) } |-> << B(<< "E", "m", "a", "i", "l", "s", "/", "j" >>), B(<< "E", "m", "a", "i", "l", "s", "/", "k" >>), B(<< "P", "a", "g", "e", "s", "/", "k" >>) >>]
  /\ result = NoDuplicate

(***************************************************************************)
(* The handlers                                                            *)
(***************************************************************************)

\* The response of a handler, the rule of validatePath that rejected the
\* path of the request, and the files the handler touched
Reply(status, text, kind, rule, accesses) ==
  [status |-> status, body |-> text, location |-> << >>, kind |-> kind, rule |-> rule,
   accesses |-> accesses]

\* http.Error: the message and a newline
Error(msg, code, rule, accesses) == Reply(code, msg \o << 10 >>, "text", rule, accesses)

\* writeErrorResponse
writeErrorResponse(message, statusCode, rule, accesses) ==
  Reply(statusCode,
        B(<< "{", "\"", "s", "u", "c", "c", "e", "s", "s", "\"", ":", "f", "a", "l", "s", "e", ",", "\"", "m", "e", "s", "s", "a", "g", "e", "\"", ":", "\"" >>) \o message \o B(<< "\"", "}" >>) \o << 10 >>,
        "json", rule, accesses)

\* http.Redirect to a local URL: the path is cleaned, a trailing slash and
\* the query are kept (the anchor of the body is left out)
Redirect(url, code, accesses) ==
  With([mark \in { Index(url, 1, << ch("?") >>) } |->
  With([path \in { IF mark = 0 THEN url ELSE SubSeq(url, 1, mark - 1) },
        query \in { IF mark = 0 THEN << >> ELSE From(url, mark) } |->
  With([trailing \in { HasSuffix(path, << ch("/") >>) },
        cleaned \in { Clean(path) } |->
  With([slashed \in { IF trailing /\ ~HasSuffix(cleaned, << ch("/") >>)
                  THEN cleaned \o << ch("/") >> ELSE cleaned } |->
      [status |-> code, body |-> << >>, location |-> slashed \o query, kind |-> "redirect",
       rule |-> NoError, accesses |-> accesses]])])])])

\* filepath.Ext
Ext(path) ==
  With([dots \in { { k \in 1..Len(path) :
                  /\ path[k] = ch(".")
                  /\ \A j \in k..Len(path) : path[j] # Separator } } |->
      IF dots = {} THEN << >> ELSE From(path, Max(dots))])

\* The view files template.ParseFiles reads for a page
Views(page) ==
  { B(<< "v", "i", "e", "w", "s", "/", "l", "a", "y", "o", "u", "t", ".", "h", "t", "m", "l" >>), B(<< "v", "i", "e", "w", "s", "/" >>) \o page, B(<< "v", "i", "e", "w", "s", "/", "n", "a", "v", "_", "t", "r", "e", "e", ".", "h", "t", "m", "l" >>) }

\* ParseFiles has failed on the first file
ViewsFailed ==
  Error(B(<< "F", "a", "i", "l", "e", "d", " ", "t", "o", " ", "l", "o", "a", "d", " ", "t", "e", "m", "p", "l", "a", "t", "e", "s", ":", " ", "o", "p", "e", "n", " ", "v", "i", "e", "w", "s", "/", "l", "a", "y", "o", "u", "t", ".", "h", "t", "m", "l", ":", " ", "n", "o", " ", "s", "u", "c", "h", " ", "f", "i", "l", "e", " ", "o", "r", " ", "d", "i", "r", "e", "c", "t", "o", "r", "y" >>),
        500, NotValidated, { B(<< "v", "i", "e", "w", "s", "/", "l", "a", "y", "o", "u", "t", ".", "h", "t", "m", "l" >>) })

InvalidPath == B(<< "I", "n", "v", "a", "l", "i", "d", " ", "p", "a", "t", "h" >>)

NoTemplate == B(<< "N", "o", " ", "t", "e", "m", "p", "l", "a", "t", "e", " ", "s", "p", "e", "c", "i", "f", "i", "e", "d" >>)

TemplateNotFound == B(<< "T", "e", "m", "p", "l", "a", "t", "e", " ", "n", "o", "t", " ", "f", "o", "u", "n", "d" >>)

InvalidTemplatePath == B(<< "I", "n", "v", "a", "l", "i", "d", " ", "t", "e", "m", "p", "l", "a", "t", "e", " ", "p", "a", "t", "h" >>)

\* The documents of processTemplateContent with the files it has probed
documents(text, path, root, tv, fsys) ==
  { assetPaths(r, path, root, fsys) : r \in renderings(text, path, tv) }

Touched(doc) == { doc.probes[k] : k \in 1..Len(doc.probes) }

\* IndexHandler: the replies to a request with this URL path (the page of
\* a listing is rendered from the view files and is left out)
IndexHandler(root, urlPath, fsys, views) ==
  IF ~views THEN { ViewsFailed }
  ELSE
    With([loaded \in { Views(B(<< "l", "i", "s", "t", "i", "n", "g", ".", "h", "t", "m", "l" >>)) },
          path \in { TrimPrefix(urlPath, << ch("/") >>) } |->
    With([fs \in { validatePath(root, path) } |->
        IF fs.err # NoError THEN { Error(InvalidPath, 400, fs.err, loaded) }
        ELSE IF ~Exists(fsys, fs.path)
          THEN { Error(B(<< "P", "a", "t", "h", " ", "n", "o", "t", " ", "f", "o", "u", "n", "d" >>), 404, NoError, loaded \cup {fs.path}) }
        ELSE IF ~fsys[fs.path].dir
          THEN { Redirect(B(<< "/", "p", "r", "e", "v", "i", "e", "w" >>) \o path, 302, loaded \cup {fs.path}) }
        ELSE { Reply(200, << >>, "listing", NoError, loaded \cup {fs.path}) }])])

\* PreviewHandler (the page around the document is rendered from the view
\* files and is left out)
PreviewHandler(root, urlPath, fsys, views, tv) ==
  IF ~views THEN { ViewsFailed }
  ELSE
    With([loaded \in { Views(B(<< "p", "r", "e", "v", "i", "e", "w", ".", "h", "t", "m", "l" >>)) },
          path \in { TrimPrefix(urlPath, B(<< "/", "p", "r", "e", "v", "i", "e", "w", "/" >>)) } |->
        IF path = << >> THEN { Error(NoTemplate, 400, NotValidated, loaded) }
        ELSE
    With([fs \in { validatePath(root, path) } |->
        IF fs.err # NoError THEN { Error(InvalidPath, 400, fs.err, loaded) }
        ELSE IF ~Exists(fsys, fs.path)
          THEN { Error(TemplateNotFound, 404, NoError, loaded \cup {fs.path}) }
        ELSE IF fsys[fs.path].dir
          THEN { Redirect(<< ch("/") >> \o path, 302, loaded \cup {fs.path}) }
        ELSE IF Ext(fs.path) # B(<< ".", "h", "t", "m", "l" >>)
          THEN { Reply(200, fsys[fs.path].data, "file", NoError, loaded \cup {fs.path}) }
        ELSE { Reply(200, doc.text, "page", NoError, loaded \cup {fs.path} \cup Touched(doc)) :
                 doc \in documents(fsys[fs.path].data, path, root, tv, fsys) }])])

\* RawViewHandler
RawViewHandler(root, urlPath, fsys, tv) ==
  With([path \in { TrimPrefix(urlPath, B(<< "/", "r", "a", "w", "/" >>)) } |->
      IF path = << >> THEN { Error(NoTemplate, 400, NotValidated, {}) }
      ELSE
  With([fs \in { validatePath(root, path) } |->
      IF fs.err # NoError THEN { Error(InvalidPath, 400, fs.err, {}) }
      ELSE IF ~Exists(fsys, fs.path)
        THEN { Error(TemplateNotFound, 404, NoError, {fs.path}) }
      ELSE IF fsys[fs.path].dir
        THEN { Redirect(<< ch("/") >> \o path, 302, {fs.path}) }
      ELSE IF Ext(fs.path) \in { B(<< ".", "h", "t", "m", "l" >>), B(<< ".", "y", "a", "m", "l" >>) }
        THEN { Reply(200, doc.text, "document", NoError, {fs.path} \cup Touched(doc)) :
                 doc \in documents(fsys[fs.path].data, path, root, tv, fsys) }
      ELSE { Reply(200, fsys[fs.path].data, "file", NoError, {fs.path}) }])])

\* validatePath's errors as err.Error() gives them
ErrorText(e) ==
  CASE e = ErrAbsolute -> B(<< "a", "b", "s", "o", "l", "u", "t", "e", " ", "p", "a", "t", "h", "s", " ", "n", "o", "t", " ", "a", "l", "l", "o", "w", "e", "d" >>)
    [] e = ErrUNC -> B(<< "U", "N", "C", " ", "p", "a", "t", "h", "s", " ", "n", "o", "t", " ", "a", "l", "l", "o", "w", "e", "d" >>)
    [] e = ErrTraversal -> B(<< "p", "a", "t", "h", " ", "t", "r", "a", "v", "e", "r", "s", "a", "l", " ", "a", "t", "t", "e", "m", "p", "t", " ", "d", "e", "t", "e", "c", "t", "e", "d" >>)
    [] e = ErrEscape -> B(<< "p", "a", "t", "h", " ", "e", "s", "c", "a", "p", "e", "s", " ", "b", "a", "s", "e", " ", "d", "i", "r", "e", "c", "t", "o", "r", "y" >>)
    [] OTHER -> B(<< "i", "n", "v", "a", "l", "i", "d", " ", "e", "n", "c", "o", "d", "i", "n", "g", " ", "i", "n", " ", "p", "a", "t", "h" >>)

\* OriginalContentHandler as a bug would have it: the error of validatePath
\* is reported to the caller.
OriginalContentHandler_ReportsError(root, urlPath, fsys) ==
  With([path \in { TrimPrefix(urlPath, B(<< "/", "o", "r", "i", "g", "i", "n", "a", "l", "/" >>)) } |->
      IF path = << >> THEN { Error(NoTemplate, 400, NotValidated, {}) }
      ELSE
  With([fs \in { validatePath(root, path) } |->
      IF fs.err # NoError
        THEN { Error(InvalidPath \o B(<< ":", " " >>) \o ErrorText(fs.err), 400, fs.err, {}) }
      ELSE IF ~Exists(fsys, fs.path)
        THEN { Error(TemplateNotFound, 404, NoError, {fs.path}) }
      ELSE IF fsys[fs.path].dir
        THEN { Error(B(<< "C", "a", "n", "n", "o", "t", " ", "v", "i", "e", "w", " ", "d", "i", "r", "e", "c", "t", "o", "r", "y", " ", "c", "o", "n", "t", "e", "n", "t" >>), 400, NoError, {fs.path}) }
      ELSE { Reply(200, fsys[fs.path].data, "file", NoError, {fs.path}) }])])

\* OriginalContentHandler
OriginalContentHandler(root, urlPath, fsys) ==
  With([path \in { TrimPrefix(urlPath, B(<< "/", "o", "r", "i", "g", "i", "n", "a", "l", "/" >>)) } |->
      IF path = << >> THEN { Error(NoTemplate, 400, NotValidated, {}) }
      ELSE
  With([fs \in { validatePath(root, path) } |->
      IF fs.err # NoError THEN { Error(InvalidPath, 400, fs.err, {}) }
      ELSE IF ~Exists(fsys, fs.path)
        THEN { Error(TemplateNotFound, 404, NoError, {fs.path}) }
      ELSE IF fsys[fs.path].dir
        THEN { Error(B(<< "C", "a", "n", "n", "o", "t", " ", "v", "i", "e", "w", " ", "d", "i", "r", "e", "c", "t", "o", "r", "y", " ", "c", "o", "n", "t", "e", "n", "t" >>), 400, NoError, {fs.path}) }
      ELSE { Reply(200, fsys[fs.path].data, "file", NoError, {fs.path}) }])])

\* The data.yaml IsEmailTemplate looks for
dataYamlPath(root, templatePath) == Join3(root, Dir(templatePath), B(<< "d", "a", "t", "a", ".", "y", "a", "m", "l" >>))

\* SendTestEmailHandler.  The filesystems of the model hold no data.yaml:
\* IsEmailTemplate answers no for every template.
SendTestEmailHandler(root, method, decoded, templatePath, fsys) ==
      IF method # "POST" THEN { Error(B(<< "M", "e", "t", "h", "o", "d", " ", "n", "o", "t", " ", "a", "l", "l", "o", "w", "e", "d" >>), 405, NotValidated, {}) }
      ELSE IF ~decoded
        THEN { writeErrorResponse(B(<< "I", "n", "v", "a", "l", "i", "d", " ", "J", "S", "O", "N", " ", "r", "e", "q", "u", "e", "s", "t" >>), 400, NotValidated, {}) }
      ELSE
  With([fs \in { validatePath(root, templatePath) } |->
      IF fs.err # NoError
        THEN { writeErrorResponse(InvalidTemplatePath, 400, fs.err, {}) }
      ELSE IF ~Exists(fsys, fs.path)
        THEN { writeErrorResponse(TemplateNotFound, 404, NoError, {fs.path}) }
      ELSE { writeErrorResponse(B(<< "N", "o", "t", " ", "a", "n", " ", "e", "m", "a", "i", "l", " ", "t", "e", "m", "p", "l", "a", "t", "e" >>), 400, NoError,
                                {fs.path, dataYamlPath(root, templatePath)}) }])

\* CheckEmailTemplateHandler, on the same filesystems
CheckEmailTemplateHandler(root, templatePath, fsys) ==
      IF templatePath = << >>
        THEN { writeErrorResponse(B(<< "N", "o", " ", "t", "e", "m", "p", "l", "a", "t", "e", " ", "p", "a", "t", "h", " ", "p", "r", "o", "v", "i", "d", "e", "d" >>), 400, NotValidated, {}) }
      ELSE
  With([fs \in { validatePath(root, templatePath) } |->
      IF fs.err # NoError
        THEN { writeErrorResponse(InvalidTemplatePath, 400, fs.err, {}) }
      ELSE { Reply(200, B(<< "{", "\"", "i", "s", "E", "m", "a", "i", "l", "\"", ":", "f", "a", "l", "s", "e", "}" >>) \o << 10 >>, "json", NoError,
                   {dataYamlPath(root, templatePath)}) }])

(***************************************************************************)
(* The requests of the model                                               *)
(***************************************************************************)

\* The template file of the filesystem the handlers serve
HttpBody == B(<< "<", "i", "m", "g", " ", "s", "r", "c", "=", "\"", "l", ".", "p", "n", "g", "\"", ">", "{", "{", ".", "F", "i", "r", "s", "t", "N", "a", "m", "e", "}", "}" >>)

\* The base directories: a directory, and the root of the filesystem, under
\* which the final verification of validatePath rejects
HttpRoots == { B(<< "/", "b" >>), << ch("/") >> }

\* The paths of the requests: none, a template, an image, a directory, no
\* file, and a path for each rule of validatePath
HttpPaths ==
  { << >>,
    B(<< "a", "/", "e", "m", "a", "i", "l", ".", "h", "t", "m", "l" >>),
    B(<< "a", "/", "l", ".", "p", "n", "g" >>),
    B(<< "b", "/", "c" >>),
    B(<< "a", "/", "n", "o", "n", "e", ".", "h", "t", "m", "l" >>),
    B(<< "/", "e", "t", "c", "/", "p", "a", "s", "s", "w", "d" >>),
    B(<< "C", ":", "x" >>),
    << ch("\\"), ch("\\"), ch("h") >>,
    B(<< ".", ".", "/", "a" >>),
    B(<< "%", "2", "5", "2", "e", "%", "2", "5", "2", "e", "/", "a" >>) }

(***************************************************************************)
(* The server                                                              *)
(***************************************************************************)

InitHttp ==
  /\ baseDir \in HttpRoots
  /\ files = Tree(baseDir, HttpBody)
  /\ reqPath = << >>
  /\ pc = "serve"
  /\ probes = {}
  /\ PathIdle
  /\ RenderIdle
  /\ HttpIdle
  /\ ConcurrentIdle
  /\ CampaignsIdle

\* validatePath has rejected the path of the request
Rejected == response.rule \notin { NoError, NotValidated }

\* The handler answers the request the client makes after the response to
\* the request from (NoRequest: of its own accord); the last answer to a
\* path validatePath rejected is remembered
Serve(name, path, reply, from) ==
  /\ pc = "serve"
  /\ origin' = from
  /\ request' = [handler |-> name, path |-> path]
  /\ response' = [status |-> reply.status, body |-> reply.body, location |-> reply.location,
                  kind |-> reply.kind, rule |-> reply.rule]
  /\ probes' = reply.accesses
  /\ answered' = IF Rejected
                 THEN { [handler |-> request.handler, rule |-> response.rule,
                         status |-> response.status, body |-> response.body,
                         accesses |-> probes] }
                 ELSE answered
  /\ UNCHANGED << baseDir, reqPath, pc, files, pathVars, renderVars, notSingle >>

\* The handler answers a request
Answer(name, path, reply) == Serve(name, path, reply, NoRequest)

\* main.go 62-78 and IndexHandler
ServeIndex ==
  \E p \in HttpPaths, views \in BOOLEAN :
    \E reply \in IndexHandler(baseDir, << ch("/") >> \o p, files, views) :
      Answer("IndexHandler", p, reply)

ServePreview ==
  \E p \in HttpPaths, views \in BOOLEAN :
    \E reply \in PreviewHandler(baseDir, B(<< "/", "p", "r", "e", "v", "i", "e", "w", "/" >>) \o p, files, views, templateVars) :
      Answer("PreviewHandler", p, reply)

ServeRawView ==
  \E p \in HttpPaths :
    \E reply \in RawViewHandler(baseDir, B(<< "/", "r", "a", "w", "/" >>) \o p, files, templateVars) :
      Answer("RawViewHandler", p, reply)

ServeOriginalContent ==
  \E p \in HttpPaths :
    \E reply \in OriginalContentHandler(baseDir, B(<< "/", "o", "r", "i", "g", "i", "n", "a", "l", "/" >>) \o p, files) :
      Answer("OriginalContentHandler", p, reply)

ServeSendTestEmail ==
  \E p \in HttpPaths, method \in {"GET", "POST"}, decoded \in BOOLEAN :
    \E reply \in SendTestEmailHandler(baseDir, method, decoded, p, files) :
      Answer("SendTestEmailHandler", p, reply)

ServeCheckEmailTemplate ==
  \E p \in HttpPaths :
    \E reply \in CheckEmailTemplateHandler(baseDir, p, files) :
      Answer("CheckEmailTemplateHandler", p, reply)

\* The client follows the redirect of the last response: main.go 61 routes
\* a path below /preview/ to PreviewHandler; main.go 64-81 strips the
\* leading slashes of any other path, puts one back and calls IndexHandler
\* (the locations of the handlers' redirects name no other route)
FollowRedirect ==
  /\ response.status = 302
  /\ \E views \in BOOLEAN :
        IF HasPrefix(response.location, B(<< "/", "p", "r", "e", "v", "i", "e", "w", "/" >>))
          THEN \E reply \in PreviewHandler(baseDir, response.location, files, views, templateVars) :
                  Serve("PreviewHandler", TrimPrefix(response.location, B(<< "/", "p", "r", "e", "v", "i", "e", "w", "/" >>)),
                        reply, request)
        ELSE \E reply \in IndexHandler(baseDir, << ch("/") >> \o TrimLeft(response.location, ch("/")),
                                       files, views) :
                  Serve("IndexHandler", TrimLeft(response.location, ch("/")), reply, request)

NextHttp ==
  \/ ServeIndex
  \/ ServePreview
  \/ ServeRawView
  \/ ServeOriginalContent
  \/ ServeSendTestEmail
  \/ ServeCheckEmailTemplate
  \/ FollowRedirect

SpecHttp == InitHttp /\ [][NextHttp]_vars

(***************************************************************************)
(* Properties of the handlers                                              *)
(***************************************************************************)

\* The response to a rejected path by handler
GenericResponse ==
  [IndexHandler |-> InvalidPath \o << 10 >>,
   PreviewHandler |-> InvalidPath \o << 10 >>,
   RawViewHandler |-> InvalidPath \o << 10 >>,
   OriginalContentHandler |-> InvalidPath \o << 10 >>,
   SendTestEmailHandler |->
     B(<< "{", "\"", "s", "u", "c", "c", "e", "s", "s", "\"", ":", "f", "a", "l", "s", "e", ",", "\"", "m", "e", "s", "s", "a", "g", "e", "\"", ":", "\"", "I", "n", "v", "a", "l", "i", "d", " ", "t", "e", "m", "p", "l", "a", "t", "e", " ", "p", "a", "t", "h", "\"", "}" >>) \o << 10 >>,
   CheckEmailTemplateHandler |->
     B(<< "{", "\"", "s", "u", "c", "c", "e", "s", "s", "\"", ":", "f", "a", "l", "s", "e", ",", "\"", "m", "e", "s", "s", "a", "g", "e", "\"", ":", "\"", "I", "n", "v", "a", "l", "i", "d", " ", "t", "e", "m", "p", "l", "a", "t", "e", " ", "p", "a", "t", "h", "\"", "}" >>) \o << 10 >>]

Redirected(name) == response.status = 302 /\ request.handler = name

\* C20: the index and the preview routes hand over to each other in one
\* hop.  IndexHandler answers a path that names a regular file with 302 and
\* the location /preview/ + path, PreviewHandler answers a path that names
\* a directory with 302 and the location / + path, and the request the
\* client makes for that location reaches the other handler with the same
\* path, which answers without a redirect.
C20_OneHop ==
  /\ Redirected("IndexHandler") => response.location = B(<< "/", "p", "r", "e", "v", "i", "e", "w", "/" >>) \o request.path
  /\ Redirected("PreviewHandler") => response.location = << ch("/") >> \o request.path
  /\ origin # NoRequest =>
        /\ request.handler = IF origin.handler = "IndexHandler" THEN "PreviewHandler"
                             ELSE "IndexHandler"
        /\ request.path = origin.path
        /\ response.status # 302

\* The hop from the preview of a directory to its listing.
PreviewHandsOver ==
  /\ Redirected("PreviewHandler") => response.location = << ch("/") >> \o request.path
  /\ (origin # NoRequest /\ origin.handler = "PreviewHandler") =>
        /\ request.handler = "IndexHandler"
        /\ request.path = origin.path
        /\ response.status \in {200, 500}
        /\ response.status = 200 => response.kind = "listing"

\* The preview of the directory b/c has sent the client to its listing.
DirectoryListed ==
  /\ origin = [handler |-> "PreviewHandler", path |-> B(<< "b", "/", "c" >>)]
  /\ request = [handler |-> "IndexHandler", path |-> B(<< "b", "/", "c" >>)]
  /\ response.status = 200
  /\ response.kind = "listing"

\* The index has sent the client of the file a/email.html to
\* /previewa/email.html, which is no path of the preview route: the index
\* gets the request again and finds no such path.
FileRedirectLost ==
  /\ origin = [handler |-> "IndexHandler", path |-> B(<< "a", "/", "e", "m", "a", "i", "l", ".", "h", "t", "m", "l" >>)]
  /\ request = [handler |-> "IndexHandler", path |-> B(<< "p", "r", "e", "v", "i", "e", "w", "a", "/", "e", "m", "a", "i", "l", ".", "h", "t", "m", "l" >>)]
  /\ response.status = 404

==========================================================================
